--------------------------- MODULE Spec2Model ---------------------------
(***************************************************************************)
(* RefractorIQ: the cyclomatic-complexity scorer (backend/analysis.py),    *)
(* the dependency graph builder and its metrics                            *)
(* (backend/dependency_analysis.py), and the life of an analysis job       *)
(* (backend/main.py, backend/tasks.py).                                    *)
(*                                                                         *)
(* Text is a sequence of one-character strings, so that slicing            *)
(* (content[start_byte:end_byte]), substring tests (x in y), replace and   *)
(* split are computed as Python computes them.  A concrete syntax tree is  *)
(* a sequence of nodes in pre-order; node 1 is the root and a node's       *)
(* children are indices into the sequence.  Children include the anonymous *)
(* token nodes, whose type is the token's text, as node.children does.     *)
(***************************************************************************)
EXTENDS Integers, Sequences, FiniteSets, TLC

VARIABLES
  repo,         \* the in-scope files in os.walk order: <<[path, src, tree]>>
  cx_pc,        \* analyze_functions: "walk" (in the file loop) or "done"
  cx_i,         \* analyze_functions: index in repo of the next file
  results,      \* analyze_functions: the results dictionary
  cx_log,       \* history: per file already visited, what happened to it
  dep_pc,       \* analyze_dependencies: "pass1", "pass2", "built", "done", "exported"
  dep_i,        \* pass 1: index in repo of the next file;
                \* pass 2: index in file_data.keys() of the current file
  dep_j,        \* pass 2: index of the next import of the current file
  G,            \* the networkx DiGraph: [order, attr, edges]
  file_data,    \* [keys |-> insertion order, val |-> path -> extracted data]
  dep_log,      \* history: per file visited by pass 1, what happened to it
  report,       \* the dictionary analyze_dependencies returns
  earlier,      \* what an earlier run on the same input returned; << >> if none
  graph_json,   \* export_graph_data: the node-link dictionary; << >> if none
  api_pc,       \* GET /analyze/full: "idle", "created", "answered"
  queue,        \* the Celery queue: the job_id of each message, oldest first
  db_job,       \* the committed analysis_jobs row, NoJob if there is none
  response,     \* what the API answered last: [endpoint, code, status]
  w_pc,         \* run_full_analysis: the worker's position
  job_id,       \* run_full_analysis: the job_id it was called with
  exc,          \* run_full_analysis: str(e) of the exception raised, << >> if none
  job,          \* run_full_analysis: the session's job object, NoJob for None
  tmpdir,       \* run_full_analysis: the local tmpdir, "None" or a path
  clone_dir,    \* the clone directory on disk: "absent", "exists", "removed"
  session_open, \* whether the worker's database session is open
  errors_occurred, \* run_full_analysis: the list errors_occurred
  index_errors, \* run_full_analysis: the list index_errors
  report_file   \* whether the report file is on disk

vars == <<repo, cx_pc, cx_i, results, cx_log,
          dep_pc, dep_i, dep_j, G, file_data, dep_log, report, earlier,
          graph_json, api_pc, queue, db_job, response, w_pc, job_id, exc, job,
          tmpdir,
          clone_dir, session_open, errors_occurred, index_errors, report_file>>

cxVars == <<cx_pc, cx_i, results, cx_log>>
depVars == <<dep_pc, dep_i, dep_j, G, file_data, dep_log, report>>
jobVars == <<api_pc, queue, db_job, response, w_pc, job_id, exc, job, tmpdir,
             clone_dir, session_open, errors_occurred, index_errors,
             report_file>>

\* no row / no answer yet
NoJob == [status |-> "None", error |-> << >>, report_s3_url |-> "None"]
NoResponse == [endpoint |-> "None", code |-> 0, status |-> "None"]

\* nothing has been asked of the API and no worker has started
JobIdle ==
  /\ api_pc = "idle"
  /\ queue = << >>
  /\ db_job = NoJob
  /\ response = NoResponse
  /\ w_pc = "idle"
  /\ job_id = "None"
  /\ exc = << >>
  /\ job = NoJob
  /\ tmpdir = "None"
  /\ clone_dir = "absent"
  /\ session_open = FALSE
  /\ errors_occurred = << >>
  /\ index_errors = << >>
  /\ report_file = FALSE

-----------------------------------------------------------------------------
(* Python str / bytes operations on sequences of characters.               *)

\* sub in s
Contains(sub, s) ==
  \E i \in 0..(Len(s) - Len(sub)) : SubSeq(s, i + 1, i + Len(sub)) = sub

\* s.replace(a, b) for single characters a, b
ReplaceChar(s, a, b) == [i \in 1..Len(s) |-> IF s[i] = a THEN b ELSE s[i]]

\* s.split(c)[-1]: what follows the last c, the whole of s without any c
SplitLast(s, c) ==
  LET at == {i \in 1..Len(s) : s[i] = c}
      last == IF at = {} THEN 0 ELSE CHOOSE i \in at : \A k \in at : k <= i
  IN SubSeq(s, last + 1, Len(s))

\* s.endswith(t)
EndsWith(s, t) ==
  Len(t) <= Len(s) /\ SubSeq(s, Len(s) - Len(t) + 1, Len(s)) = t

\* os.path.splitext(p): <<root, ext>>; the extension starts at the last dot
\* of the last path component, unless that dot leads the component.
Splitext(p) ==
  LET seps == {i \in 1..Len(p) : p[i] = "/"}
      base == IF seps = {} THEN 0 ELSE CHOOSE i \in seps : \A k \in seps : k <= i
      dots == {i \in (base + 1)..Len(p) : p[i] = "."}
      dot  == IF dots = {} THEN 0 ELSE CHOOSE i \in dots : \A k \in dots : k <= i
      lead == \A k \in (base + 1)..dot : p[k] = "."
  IN IF dot = 0 \/ lead THEN <<p, << >> >>
     ELSE <<SubSeq(p, 1, dot - 1), SubSeq(p, dot, Len(p))>>

\* A byte that is no valid UTF-8: bytes.decode('utf-8', errors='ignore')
\* drops it.
InvalidByte == "\\xff"

\* b.decode('utf-8', errors='ignore')
Decode(b) == SelectSeq(b, LAMBDA c : c # InvalidByte)

\* content[n.start_byte:n.end_byte]
Slice(content, node) == SubSeq(content, node.start_byte + 1, node.end_byte)

\* content[n.start_byte:n.end_byte].decode('utf-8', errors='ignore')
NodeText(content, node) == Decode(Slice(content, node))

Node(t, s, e, k) == [type |-> t, start_byte |-> s, end_byte |-> e, children |-> k]

Max(a, b) == IF a >= b THEN a ELSE b
Min(a, b) == IF a <= b THEN a ELSE b

\* The extensions of the files the walks look at.
SourceExts == { <<".", "p", "y">>, <<".", "j", "s">>, <<".", "t", "s">>,
                <<".", "j", "a", "v", "a">> }

\* get_parser_and_language: the grammar an extension is parsed with, "none"
\* where the code returns (None, None).
get_parser_and_language(ext) ==
  IF ext = <<".", "p", "y">> THEN "python"
  ELSE IF ext \in { <<".", "j", "s">>, <<".", "t", "s">> } THEN "javascript"
  ELSE IF ext = <<".", "j", "a", "v", "a">> THEN "java"
  ELSE "none"

FUNCTION_NODE_TYPES ==
  { "function_definition", "function_declaration", "method_definition",
    "arrow_function", "method_declaration", "constructor_declaration",
    "function", "method" }

DECISION_NODE_TYPES ==
  { "if_statement", "elif_clause", "else_clause", "for_statement",
    "while_statement", "except_clause", "case_statement", "switch_statement",
    "conditional_expression", "ternary_expression", "catch_clause",
    "finally_clause", "boolean_operator", "binary_expression" }

\* COMPLEXITY_THRESHOLDS[...][1]: the upper ends of low, medium and high
LowMax == 5
MediumMax == 10
HighMax == 20

-----------------------------------------------------------------------------
(* Sample source files: the bytes and the tree the grammar gives them.     *)

\* an empty Python file
\*   source text: 
SrcEmpty ==
  [content |-> << >>,
   tree |-> <<
     Node("module", 0, 0, <<>>)
   >>]

\* Python: one absolute import of a
\*   source text: import a
SrcImportA ==
  [content |-> <<"i", "m", "p", "o", "r", "t", " ", "a">>,
   tree |-> <<
     Node("module", 0, 8, <<2>>),
     Node("import_statement", 0, 8, <<3, 4>>),
     Node("import", 0, 6, <<>>),
     Node("dotted_name", 7, 8, <<5>>),
     Node("identifier", 7, 8, <<>>)
   >>]

\* Python: one absolute import of b
\*   source text: import b
SrcImportB ==
  [content |-> <<"i", "m", "p", "o", "r", "t", " ", "b">>,
   tree |-> <<
     Node("module", 0, 8, <<2>>),
     Node("import_statement", 0, 8, <<3, 4>>),
     Node("import", 0, 6, <<>>),
     Node("dotted_name", 7, 8, <<5>>),
     Node("identifier", 7, 8, <<>>)
   >>]

\* Python: import of a module no file provides
\*   source text: import numpy
SrcImportNumpy ==
  [content |-> <<"i", "m", "p", "o", "r", "t", " ", "n", "u", "m", "p", "y">>,
   tree |-> <<
     Node("module", 0, 12, <<2>>),
     Node("import_statement", 0, 12, <<3, 4>>),
     Node("import", 0, 6, <<>>),
     Node("dotted_name", 7, 12, <<5>>),
     Node("identifier", 7, 12, <<>>)
   >>]

\* Python: import of the standard module os
\*   source text: import os
SrcImportOs ==
  [content |-> <<"i", "m", "p", "o", "r", "t", " ", "o", "s">>,
   tree |-> <<
     Node("module", 0, 9, <<2>>),
     Node("import_statement", 0, 9, <<3, 4>>),
     Node("import", 0, 6, <<>>),
     Node("dotted_name", 7, 9, <<5>>),
     Node("identifier", 7, 9, <<>>)
   >>]

\* Python: dotted absolute import
\*   source text: import pkg.b
SrcImportPkgB ==
  [content |-> <<"i", "m", "p", "o", "r", "t", " ", "p", "k", "g", ".", "b">>,
   tree |-> <<
     Node("module", 0, 12, <<2>>),
     Node("import_statement", 0, 12, <<3, 4>>),
     Node("import", 0, 6, <<>>),
     Node("dotted_name", 7, 12, <<5, 6, 7>>),
     Node("identifier", 7, 10, <<>>),
     Node(".", 10, 11, <<>>),
     Node("identifier", 11, 12, <<>>)
   >>]

\* Python: three imports
\*   source text: import b\nimport c\nimport d
SrcImportsBCD ==
  [content |-> <<"i", "m", "p", "o", "r", "t", " ", "b", "\n", "i", "m", "p", "o", "r", "t", " ", "c", "\n", "i", "m", "p", "o", "r", "t", " ", "d">>,
   tree |-> <<
     Node("module", 0, 26, <<2, 6, 10>>),
     Node("import_statement", 0, 8, <<3, 4>>),
     Node("import", 0, 6, <<>>),
     Node("dotted_name", 7, 8, <<5>>),
     Node("identifier", 7, 8, <<>>),
     Node("import_statement", 9, 17, <<7, 8>>),
     Node("import", 9, 15, <<>>),
     Node("dotted_name", 16, 17, <<9>>),
     Node("identifier", 16, 17, <<>>),
     Node("import_statement", 18, 26, <<11, 12>>),
     Node("import", 18, 24, <<>>),
     Node("dotted_name", 25, 26, <<13>>),
     Node("identifier", 25, 26, <<>>)
   >>]

\* Python: three imports
\*   source text: import a\nimport c\nimport d
SrcImportsACD ==
  [content |-> <<"i", "m", "p", "o", "r", "t", " ", "a", "\n", "i", "m", "p", "o", "r", "t", " ", "c", "\n", "i", "m", "p", "o", "r", "t", " ", "d">>,
   tree |-> <<
     Node("module", 0, 26, <<2, 6, 10>>),
     Node("import_statement", 0, 8, <<3, 4>>),
     Node("import", 0, 6, <<>>),
     Node("dotted_name", 7, 8, <<5>>),
     Node("identifier", 7, 8, <<>>),
     Node("import_statement", 9, 17, <<7, 8>>),
     Node("import", 9, 15, <<>>),
     Node("dotted_name", 16, 17, <<9>>),
     Node("identifier", 16, 17, <<>>),
     Node("import_statement", 18, 26, <<11, 12>>),
     Node("import", 18, 24, <<>>),
     Node("dotted_name", 25, 26, <<13>>),
     Node("identifier", 25, 26, <<>>)
   >>]

\* Python: three imports
\*   source text: import a\nimport b\nimport d
SrcImportsABD ==
  [content |-> <<"i", "m", "p", "o", "r", "t", " ", "a", "\n", "i", "m", "p", "o", "r", "t", " ", "b", "\n", "i", "m", "p", "o", "r", "t", " ", "d">>,
   tree |-> <<
     Node("module", 0, 26, <<2, 6, 10>>),
     Node("import_statement", 0, 8, <<3, 4>>),
     Node("import", 0, 6, <<>>),
     Node("dotted_name", 7, 8, <<5>>),
     Node("identifier", 7, 8, <<>>),
     Node("import_statement", 9, 17, <<7, 8>>),
     Node("import", 9, 15, <<>>),
     Node("dotted_name", 16, 17, <<9>>),
     Node("identifier", 16, 17, <<>>),
     Node("import_statement", 18, 26, <<11, 12>>),
     Node("import", 18, 24, <<>>),
     Node("dotted_name", 25, 26, <<13>>),
     Node("identifier", 25, 26, <<>>)
   >>]

\* Python: three imports
\*   source text: import a\nimport b\nimport c
SrcImportsABC ==
  [content |-> <<"i", "m", "p", "o", "r", "t", " ", "a", "\n", "i", "m", "p", "o", "r", "t", " ", "b", "\n", "i", "m", "p", "o", "r", "t", " ", "c">>,
   tree |-> <<
     Node("module", 0, 26, <<2, 6, 10>>),
     Node("import_statement", 0, 8, <<3, 4>>),
     Node("import", 0, 6, <<>>),
     Node("dotted_name", 7, 8, <<5>>),
     Node("identifier", 7, 8, <<>>),
     Node("import_statement", 9, 17, <<7, 8>>),
     Node("import", 9, 15, <<>>),
     Node("dotted_name", 16, 17, <<9>>),
     Node("identifier", 16, 17, <<>>),
     Node("import_statement", 18, 26, <<11, 12>>),
     Node("import", 18, 24, <<>>),
     Node("dotted_name", 25, 26, <<13>>),
     Node("identifier", 25, 26, <<>>)
   >>]

\* Python: a function and a class of the same name
\*   source text: def f():pass\nclass f:pass
SrcFuncAndClassF ==
  [content |-> <<"d", "e", "f", " ", "f", "(", ")", ":", "p", "a", "s", "s", "\n", "c", "l", "a", "s", "s", " ", "f", ":", "p", "a", "s", "s">>,
   tree |-> <<
     Node("module", 0, 25, <<2, 12>>),
     Node("function_definition", 0, 12, <<3, 4, 5, 8, 9>>),
     Node("def", 0, 3, <<>>),
     Node("identifier", 4, 5, <<>>),
     Node("parameters", 5, 7, <<6, 7>>),
     Node("(", 5, 6, <<>>),
     Node(")", 6, 7, <<>>),
     Node(":", 7, 8, <<>>),
     Node("block", 8, 12, <<10>>),
     Node("pass_statement", 8, 12, <<11>>),
     Node("pass", 8, 12, <<>>),
     Node("class_definition", 13, 25, <<13, 14, 15, 16>>),
     Node("class", 13, 18, <<>>),
     Node("identifier", 19, 20, <<>>),
     Node(":", 20, 21, <<>>),
     Node("block", 21, 25, <<17>>),
     Node("pass_statement", 21, 25, <<18>>),
     Node("pass", 21, 25, <<>>)
   >>]

\* Python: an external import and two functions of the same name
\*   source text: import numpy\ndef f():pass\ndef f():pass
SrcTwoFuncsF ==
  [content |-> <<"i", "m", "p", "o", "r", "t", " ", "n", "u", "m", "p", "y", "\n", "d", "e", "f", " ", "f", "(", ")", ":", "p", "a", "s", "s", "\n", "d", "e", "f", " ", "f", "(", ")", ":", "p", "a", "s", "s">>,
   tree |-> <<
     Node("module", 0, 38, <<2, 6, 16>>),
     Node("import_statement", 0, 12, <<3, 4>>),
     Node("import", 0, 6, <<>>),
     Node("dotted_name", 7, 12, <<5>>),
     Node("identifier", 7, 12, <<>>),
     Node("function_definition", 13, 25, <<7, 8, 9, 12, 13>>),
     Node("def", 13, 16, <<>>),
     Node("identifier", 17, 18, <<>>),
     Node("parameters", 18, 20, <<10, 11>>),
     Node("(", 18, 19, <<>>),
     Node(")", 19, 20, <<>>),
     Node(":", 20, 21, <<>>),
     Node("block", 21, 25, <<14>>),
     Node("pass_statement", 21, 25, <<15>>),
     Node("pass", 21, 25, <<>>),
     Node("function_definition", 26, 38, <<17, 18, 19, 22, 23>>),
     Node("def", 26, 29, <<>>),
     Node("identifier", 30, 31, <<>>),
     Node("parameters", 31, 33, <<20, 21>>),
     Node("(", 31, 32, <<>>),
     Node(")", 32, 33, <<>>),
     Node(":", 33, 34, <<>>),
     Node("block", 34, 38, <<24>>),
     Node("pass_statement", 34, 38, <<25>>),
     Node("pass", 34, 38, <<>>)
   >>]

\* Python: an import, a class and a function
\*   source text: import a\nclass C:pass\ndef g():pass
SrcClassC ==
  [content |-> <<"i", "m", "p", "o", "r", "t", " ", "a", "\n", "c", "l", "a", "s", "s", " ", "C", ":", "p", "a", "s", "s", "\n", "d", "e", "f", " ", "g", "(", ")", ":", "p", "a", "s", "s">>,
   tree |-> <<
     Node("module", 0, 34, <<2, 6, 13>>),
     Node("import_statement", 0, 8, <<3, 4>>),
     Node("import", 0, 6, <<>>),
     Node("dotted_name", 7, 8, <<5>>),
     Node("identifier", 7, 8, <<>>),
     Node("class_definition", 9, 21, <<7, 8, 9, 10>>),
     Node("class", 9, 14, <<>>),
     Node("identifier", 15, 16, <<>>),
     Node(":", 16, 17, <<>>),
     Node("block", 17, 21, <<11>>),
     Node("pass_statement", 17, 21, <<12>>),
     Node("pass", 17, 21, <<>>),
     Node("function_definition", 22, 34, <<14, 15, 16, 19, 20>>),
     Node("def", 22, 25, <<>>),
     Node("identifier", 26, 27, <<>>),
     Node("parameters", 27, 29, <<17, 18>>),
     Node("(", 27, 28, <<>>),
     Node(")", 28, 29, <<>>),
     Node(":", 29, 30, <<>>),
     Node("block", 30, 34, <<21>>),
     Node("pass_statement", 30, 34, <<22>>),
     Node("pass", 30, 34, <<>>)
   >>]

\* Python: a relative from-import; the module is a relative_import node
\*   source text: from .b import x
SrcFromDotBImportX ==
  [content |-> <<"f", "r", "o", "m", " ", ".", "b", " ", "i", "m", "p", "o", "r", "t", " ", "x">>,
   tree |-> <<
     Node("module", 0, 16, <<2>>),
     Node("import_from_statement", 0, 16, <<3, 4, 9, 10>>),
     Node("from", 0, 4, <<>>),
     Node("relative_import", 5, 7, <<5, 7>>),
     Node("import_prefix", 5, 6, <<6>>),
     Node(".", 5, 6, <<>>),
     Node("dotted_name", 6, 7, <<8>>),
     Node("identifier", 6, 7, <<>>),
     Node("import", 8, 14, <<>>),
     Node("dotted_name", 15, 16, <<11>>),
     Node("identifier", 15, 16, <<>>)
   >>]

\* Python: a from-import of one name
\*   source text: from b import x
SrcFromBImportX ==
  [content |-> <<"f", "r", "o", "m", " ", "b", " ", "i", "m", "p", "o", "r", "t", " ", "x">>,
   tree |-> <<
     Node("module", 0, 15, <<2>>),
     Node("import_from_statement", 0, 15, <<3, 4, 6, 7>>),
     Node("from", 0, 4, <<>>),
     Node("dotted_name", 5, 6, <<5>>),
     Node("identifier", 5, 6, <<>>),
     Node("import", 7, 13, <<>>),
     Node("dotted_name", 14, 15, <<8>>),
     Node("identifier", 14, 15, <<>>)
   >>]

\* Python: a from-import of two names
\*   source text: from b import x, y
SrcFromBImportXY ==
  [content |-> <<"f", "r", "o", "m", " ", "b", " ", "i", "m", "p", "o", "r", "t", " ", "x", ",", " ", "y">>,
   tree |-> <<
     Node("module", 0, 18, <<2>>),
     Node("import_from_statement", 0, 18, <<3, 4, 6, 7, 9, 10>>),
     Node("from", 0, 4, <<>>),
     Node("dotted_name", 5, 6, <<5>>),
     Node("identifier", 5, 6, <<>>),
     Node("import", 7, 13, <<>>),
     Node("dotted_name", 14, 15, <<8>>),
     Node("identifier", 14, 15, <<>>),
     Node(",", 15, 16, <<>>),
     Node("dotted_name", 17, 18, <<11>>),
     Node("identifier", 17, 18, <<>>)
   >>]

\* Python: the same module imported twice
\*   source text: import b\nimport b
SrcImportBTwice ==
  [content |-> <<"i", "m", "p", "o", "r", "t", " ", "b", "\n", "i", "m", "p", "o", "r", "t", " ", "b">>,
   tree |-> <<
     Node("module", 0, 17, <<2, 6>>),
     Node("import_statement", 0, 8, <<3, 4>>),
     Node("import", 0, 6, <<>>),
     Node("dotted_name", 7, 8, <<5>>),
     Node("identifier", 7, 8, <<>>),
     Node("import_statement", 9, 17, <<7, 8>>),
     Node("import", 9, 15, <<>>),
     Node("dotted_name", 16, 17, <<9>>),
     Node("identifier", 16, 17, <<>>)
   >>]

\* Python: f has one if, one elif and one for and no boolean operator; p has
\*   'a and b' with blanks around the operator and '(a)or(b)' without; z has no
\*   decision point; n is nested in m
\*   source text: def f(a,b):\n if a:pass\n elif b:pass\n for i in a:pass\ndef p(a,b):\n if a and b:pass\n if (a)or(b):pass\ndef z():pass\ndef m():\n def n():\n  if a:pass\n if a:pass
SrcPyFuncs ==
  [content |-> <<"d", "e", "f", " ", "f", "(", "a", ",", "b", ")", ":", "\n", " ", "i", "f", " ", "a", ":", "p", "a", "s", "s", "\n", " ", "e", "l", "i", "f", " ", "b", ":", "p", "a", "s", "s", "\n", " ", "f", "o", "r", " ", "i", " ", "i", "n", " ", "a", ":", "p", "a", "s", "s", "\n", "d", "e", "f", " ", "p", "(", "a", ",", "b", ")", ":", "\n", " ", "i", "f", " ", "a", " ", "a", "n", "d", " ", "b", ":", "p", "a", "s", "s", "\n", " ", "i", "f", " ", "(", "a", ")", "o", "r", "(", "b", ")", ":", "p", "a", "s", "s", "\n", "d", "e", "f", " ", "z", "(", ")", ":", "p", "a", "s", "s", "\n", "d", "e", "f", " ", "m", "(", ")", ":", "\n", " ", "d", "e", "f", " ", "n", "(", ")", ":", "\n", " ", " ", "i", "f", " ", "a", ":", "p", "a", "s", "s", "\n", " ", "i", "f", " ", "a", ":", "p", "a", "s", "s">>,
   tree |-> <<
     Node("module", 0, 154, <<2, 36, 73, 83>>),
     Node("function_definition", 0, 52, <<3, 4, 5, 11, 12>>),
     Node("def", 0, 3, <<>>),
     Node("identifier", 4, 5, <<>>),
     Node("parameters", 5, 10, <<6, 7, 8, 9, 10>>),
     Node("(", 5, 6, <<>>),
     Node("identifier", 6, 7, <<>>),
     Node(",", 7, 8, <<>>),
     Node("identifier", 8, 9, <<>>),
     Node(")", 9, 10, <<>>),
     Node(":", 10, 11, <<>>),
     Node("block", 13, 52, <<13, 27>>),
     Node("if_statement", 13, 35, <<14, 15, 16, 17, 20>>),
     Node("if", 13, 15, <<>>),
     Node("identifier", 16, 17, <<>>),
     Node(":", 17, 18, <<>>),
     Node("block", 18, 22, <<18>>),
     Node("pass_statement", 18, 22, <<19>>),
     Node("pass", 18, 22, <<>>),
     Node("elif_clause", 24, 35, <<21, 22, 23, 24>>),
     Node("elif", 24, 28, <<>>),
     Node("identifier", 29, 30, <<>>),
     Node(":", 30, 31, <<>>),
     Node("block", 31, 35, <<25>>),
     Node("pass_statement", 31, 35, <<26>>),
     Node("pass", 31, 35, <<>>),
     Node("for_statement", 37, 52, <<28, 29, 30, 31, 32, 33>>),
     Node("for", 37, 40, <<>>),
     Node("identifier", 41, 42, <<>>),
     Node("in", 43, 45, <<>>),
     Node("identifier", 46, 47, <<>>),
     Node(":", 47, 48, <<>>),
     Node("block", 48, 52, <<34>>),
     Node("pass_statement", 48, 52, <<35>>),
     Node("pass", 48, 52, <<>>),
     Node("function_definition", 53, 99, <<37, 38, 39, 45, 46>>),
     Node("def", 53, 56, <<>>),
     Node("identifier", 57, 58, <<>>),
     Node("parameters", 58, 63, <<40, 41, 42, 43, 44>>),
     Node("(", 58, 59, <<>>),
     Node("identifier", 59, 60, <<>>),
     Node(",", 60, 61, <<>>),
     Node("identifier", 61, 62, <<>>),
     Node(")", 62, 63, <<>>),
     Node(":", 63, 64, <<>>),
     Node("block", 66, 99, <<47, 57>>),
     Node("if_statement", 66, 81, <<48, 49, 53, 54>>),
     Node("if", 66, 68, <<>>),
     Node("boolean_operator", 69, 76, <<50, 51, 52>>),
     Node("identifier", 69, 70, <<>>),
     Node("and", 71, 74, <<>>),
     Node("identifier", 75, 76, <<>>),
     Node(":", 76, 77, <<>>),
     Node("block", 77, 81, <<55>>),
     Node("pass_statement", 77, 81, <<56>>),
     Node("pass", 77, 81, <<>>),
     Node("if_statement", 83, 99, <<58, 59, 69, 70>>),
     Node("if", 83, 85, <<>>),
     Node("boolean_operator", 86, 94, <<60, 64, 65>>),
     Node("parenthesized_expression", 86, 89, <<61, 62, 63>>),
     Node("(", 86, 87, <<>>),
     Node("identifier", 87, 88, <<>>),
     Node(")", 88, 89, <<>>),
     Node("or", 89, 91, <<>>),
     Node("parenthesized_expression", 91, 94, <<66, 67, 68>>),
     Node("(", 91, 92, <<>>),
     Node("identifier", 92, 93, <<>>),
     Node(")", 93, 94, <<>>),
     Node(":", 94, 95, <<>>),
     Node("block", 95, 99, <<71>>),
     Node("pass_statement", 95, 99, <<72>>),
     Node("pass", 95, 99, <<>>),
     Node("function_definition", 100, 112, <<74, 75, 76, 79, 80>>),
     Node("def", 100, 103, <<>>),
     Node("identifier", 104, 105, <<>>),
     Node("parameters", 105, 107, <<77, 78>>),
     Node("(", 105, 106, <<>>),
     Node(")", 106, 107, <<>>),
     Node(":", 107, 108, <<>>),
     Node("block", 108, 112, <<81>>),
     Node("pass_statement", 108, 112, <<82>>),
     Node("pass", 108, 112, <<>>),
     Node("function_definition", 113, 154, <<84, 85, 86, 89, 90>>),
     Node("def", 113, 116, <<>>),
     Node("identifier", 117, 118, <<>>),
     Node("parameters", 118, 120, <<87, 88>>),
     Node("(", 118, 119, <<>>),
     Node(")", 119, 120, <<>>),
     Node(":", 120, 121, <<>>),
     Node("block", 123, 154, <<91, 106>>),
     Node("function_definition", 123, 143, <<92, 93, 94, 97, 98>>),
     Node("def", 123, 126, <<>>),
     Node("identifier", 127, 128, <<>>),
     Node("parameters", 128, 130, <<95, 96>>),
     Node("(", 128, 129, <<>>),
     Node(")", 129, 130, <<>>),
     Node(":", 130, 131, <<>>),
     Node("block", 134, 143, <<99>>),
     Node("if_statement", 134, 143, <<100, 101, 102, 103>>),
     Node("if", 134, 136, <<>>),
     Node("identifier", 137, 138, <<>>),
     Node(":", 138, 139, <<>>),
     Node("block", 139, 143, <<104>>),
     Node("pass_statement", 139, 143, <<105>>),
     Node("pass", 139, 143, <<>>),
     Node("if_statement", 145, 154, <<107, 108, 109, 110>>),
     Node("if", 145, 147, <<>>),
     Node("identifier", 148, 149, <<>>),
     Node(":", 149, 150, <<>>),
     Node("block", 150, 154, <<111>>),
     Node("pass_statement", 150, 154, <<112>>),
     Node("pass", 150, 154, <<>>)
   >>]

\* JavaScript: g has an if over two nested logical binary expressions, k an if
\*   over an arithmetic binary expression
\*   source text: function g(){if((a && b) || c);}function k(){if(a+b);}
SrcJsFuncs ==
  [content |-> <<"f", "u", "n", "c", "t", "i", "o", "n", " ", "g", "(", ")", "{", "i", "f", "(", "(", "a", " ", "&", "&", " ", "b", ")", " ", "|", "|", " ", "c", ")", ";", "}", "f", "u", "n", "c", "t", "i", "o", "n", " ", "k", "(", ")", "{", "i", "f", "(", "a", "+", "b", ")", ";", "}">>,
   tree |-> <<
     Node("program", 0, 54, <<2, 28>>),
     Node("function_declaration", 0, 32, <<3, 4, 5, 8>>),
     Node("function", 0, 8, <<>>),
     Node("identifier", 9, 10, <<>>),
     Node("formal_parameters", 10, 12, <<6, 7>>),
     Node("(", 10, 11, <<>>),
     Node(")", 11, 12, <<>>),
     Node("statement_block", 12, 32, <<9, 10, 27>>),
     Node("{", 12, 13, <<>>),
     Node("if_statement", 13, 31, <<11, 12, 25>>),
     Node("if", 13, 15, <<>>),
     Node("parenthesized_expression", 15, 30, <<13, 14, 24>>),
     Node("(", 15, 16, <<>>),
     Node("binary_expression", 16, 29, <<15, 22, 23>>),
     Node("parenthesized_expression", 16, 24, <<16, 17, 21>>),
     Node("(", 16, 17, <<>>),
     Node("binary_expression", 17, 23, <<18, 19, 20>>),
     Node("identifier", 17, 18, <<>>),
     Node("&&", 19, 21, <<>>),
     Node("identifier", 22, 23, <<>>),
     Node(")", 23, 24, <<>>),
     Node("||", 25, 27, <<>>),
     Node("identifier", 28, 29, <<>>),
     Node(")", 29, 30, <<>>),
     Node("empty_statement", 30, 31, <<26>>),
     Node(";", 30, 31, <<>>),
     Node("}", 31, 32, <<>>),
     Node("function_declaration", 32, 54, <<29, 30, 31, 34>>),
     Node("function", 32, 40, <<>>),
     Node("identifier", 41, 42, <<>>),
     Node("formal_parameters", 42, 44, <<32, 33>>),
     Node("(", 42, 43, <<>>),
     Node(")", 43, 44, <<>>),
     Node("statement_block", 44, 54, <<35, 36, 47>>),
     Node("{", 44, 45, <<>>),
     Node("if_statement", 45, 53, <<37, 38, 45>>),
     Node("if", 45, 47, <<>>),
     Node("parenthesized_expression", 47, 52, <<39, 40, 44>>),
     Node("(", 47, 48, <<>>),
     Node("binary_expression", 48, 51, <<41, 42, 43>>),
     Node("identifier", 48, 49, <<>>),
     Node("+", 49, 50, <<>>),
     Node("identifier", 50, 51, <<>>),
     Node(")", 51, 52, <<>>),
     Node("empty_statement", 52, 53, <<46>>),
     Node(";", 52, 53, <<>>),
     Node("}", 53, 54, <<>>)
   >>]

\* JavaScript: a function declaration with 4 if statements
\*   source text: function h(){if(a);if(a);if(a);if(a);}
SrcJsIfs4 ==
  [content |-> <<"f", "u", "n", "c", "t", "i", "o", "n", " ", "h", "(", ")", "{", "i", "f", "(", "a", ")", ";", "i", "f", "(", "a", ")", ";", "i", "f", "(", "a", ")", ";", "i", "f", "(", "a", ")", ";", "}">>,
   tree |-> <<
     Node("program", 0, 38, <<2>>),
     Node("function_declaration", 0, 38, <<3, 4, 5, 8>>),
     Node("function", 0, 8, <<>>),
     Node("identifier", 9, 10, <<>>),
     Node("formal_parameters", 10, 12, <<6, 7>>),
     Node("(", 10, 11, <<>>),
     Node(")", 11, 12, <<>>),
     Node("statement_block", 12, 38, <<9, 10, 18, 26, 34, 42>>),
     Node("{", 12, 13, <<>>),
     Node("if_statement", 13, 19, <<11, 12, 16>>),
     Node("if", 13, 15, <<>>),
     Node("parenthesized_expression", 15, 18, <<13, 14, 15>>),
     Node("(", 15, 16, <<>>),
     Node("identifier", 16, 17, <<>>),
     Node(")", 17, 18, <<>>),
     Node("empty_statement", 18, 19, <<17>>),
     Node(";", 18, 19, <<>>),
     Node("if_statement", 19, 25, <<19, 20, 24>>),
     Node("if", 19, 21, <<>>),
     Node("parenthesized_expression", 21, 24, <<21, 22, 23>>),
     Node("(", 21, 22, <<>>),
     Node("identifier", 22, 23, <<>>),
     Node(")", 23, 24, <<>>),
     Node("empty_statement", 24, 25, <<25>>),
     Node(";", 24, 25, <<>>),
     Node("if_statement", 25, 31, <<27, 28, 32>>),
     Node("if", 25, 27, <<>>),
     Node("parenthesized_expression", 27, 30, <<29, 30, 31>>),
     Node("(", 27, 28, <<>>),
     Node("identifier", 28, 29, <<>>),
     Node(")", 29, 30, <<>>),
     Node("empty_statement", 30, 31, <<33>>),
     Node(";", 30, 31, <<>>),
     Node("if_statement", 31, 37, <<35, 36, 40>>),
     Node("if", 31, 33, <<>>),
     Node("parenthesized_expression", 33, 36, <<37, 38, 39>>),
     Node("(", 33, 34, <<>>),
     Node("identifier", 34, 35, <<>>),
     Node(")", 35, 36, <<>>),
     Node("empty_statement", 36, 37, <<41>>),
     Node(";", 36, 37, <<>>),
     Node("}", 37, 38, <<>>)
   >>]

\* JavaScript: a function declaration with 5 if statements
\*   source text: function h(){if(a);if(a);if(a);if(a);if(a);}
SrcJsIfs5 ==
  [content |-> <<"f", "u", "n", "c", "t", "i", "o", "n", " ", "h", "(", ")", "{", "i", "f", "(", "a", ")", ";", "i", "f", "(", "a", ")", ";", "i", "f", "(", "a", ")", ";", "i", "f", "(", "a", ")", ";", "i", "f", "(", "a", ")", ";", "}">>,
   tree |-> <<
     Node("program", 0, 44, <<2>>),
     Node("function_declaration", 0, 44, <<3, 4, 5, 8>>),
     Node("function", 0, 8, <<>>),
     Node("identifier", 9, 10, <<>>),
     Node("formal_parameters", 10, 12, <<6, 7>>),
     Node("(", 10, 11, <<>>),
     Node(")", 11, 12, <<>>),
     Node("statement_block", 12, 44, <<9, 10, 18, 26, 34, 42, 50>>),
     Node("{", 12, 13, <<>>),
     Node("if_statement", 13, 19, <<11, 12, 16>>),
     Node("if", 13, 15, <<>>),
     Node("parenthesized_expression", 15, 18, <<13, 14, 15>>),
     Node("(", 15, 16, <<>>),
     Node("identifier", 16, 17, <<>>),
     Node(")", 17, 18, <<>>),
     Node("empty_statement", 18, 19, <<17>>),
     Node(";", 18, 19, <<>>),
     Node("if_statement", 19, 25, <<19, 20, 24>>),
     Node("if", 19, 21, <<>>),
     Node("parenthesized_expression", 21, 24, <<21, 22, 23>>),
     Node("(", 21, 22, <<>>),
     Node("identifier", 22, 23, <<>>),
     Node(")", 23, 24, <<>>),
     Node("empty_statement", 24, 25, <<25>>),
     Node(";", 24, 25, <<>>),
     Node("if_statement", 25, 31, <<27, 28, 32>>),
     Node("if", 25, 27, <<>>),
     Node("parenthesized_expression", 27, 30, <<29, 30, 31>>),
     Node("(", 27, 28, <<>>),
     Node("identifier", 28, 29, <<>>),
     Node(")", 29, 30, <<>>),
     Node("empty_statement", 30, 31, <<33>>),
     Node(";", 30, 31, <<>>),
     Node("if_statement", 31, 37, <<35, 36, 40>>),
     Node("if", 31, 33, <<>>),
     Node("parenthesized_expression", 33, 36, <<37, 38, 39>>),
     Node("(", 33, 34, <<>>),
     Node("identifier", 34, 35, <<>>),
     Node(")", 35, 36, <<>>),
     Node("empty_statement", 36, 37, <<41>>),
     Node(";", 36, 37, <<>>),
     Node("if_statement", 37, 43, <<43, 44, 48>>),
     Node("if", 37, 39, <<>>),
     Node("parenthesized_expression", 39, 42, <<45, 46, 47>>),
     Node("(", 39, 40, <<>>),
     Node("identifier", 40, 41, <<>>),
     Node(")", 41, 42, <<>>),
     Node("empty_statement", 42, 43, <<49>>),
     Node(";", 42, 43, <<>>),
     Node("}", 43, 44, <<>>)
   >>]

\* JavaScript: a function declaration with 9 if statements
\*   source text: function h(){if(a);if(a);if(a);if(a);if(a);if(a);if(a);if(a);if(a);}
SrcJsIfs9 ==
  [content |-> <<"f", "u", "n", "c", "t", "i", "o", "n", " ", "h", "(", ")", "{", "i", "f", "(", "a", ")", ";", "i", "f", "(", "a", ")", ";", "i", "f", "(", "a", ")", ";", "i", "f", "(", "a", ")", ";", "i", "f", "(", "a", ")", ";", "i", "f", "(", "a", ")", ";", "i", "f", "(", "a", ")", ";", "i", "f", "(", "a", ")", ";", "i", "f", "(", "a", ")", ";", "}">>,
   tree |-> <<
     Node("program", 0, 68, <<2>>),
     Node("function_declaration", 0, 68, <<3, 4, 5, 8>>),
     Node("function", 0, 8, <<>>),
     Node("identifier", 9, 10, <<>>),
     Node("formal_parameters", 10, 12, <<6, 7>>),
     Node("(", 10, 11, <<>>),
     Node(")", 11, 12, <<>>),
     Node("statement_block", 12, 68, <<9, 10, 18, 26, 34, 42, 50, 58, 66, 74, 82>>),
     Node("{", 12, 13, <<>>),
     Node("if_statement", 13, 19, <<11, 12, 16>>),
     Node("if", 13, 15, <<>>),
     Node("parenthesized_expression", 15, 18, <<13, 14, 15>>),
     Node("(", 15, 16, <<>>),
     Node("identifier", 16, 17, <<>>),
     Node(")", 17, 18, <<>>),
     Node("empty_statement", 18, 19, <<17>>),
     Node(";", 18, 19, <<>>),
     Node("if_statement", 19, 25, <<19, 20, 24>>),
     Node("if", 19, 21, <<>>),
     Node("parenthesized_expression", 21, 24, <<21, 22, 23>>),
     Node("(", 21, 22, <<>>),
     Node("identifier", 22, 23, <<>>),
     Node(")", 23, 24, <<>>),
     Node("empty_statement", 24, 25, <<25>>),
     Node(";", 24, 25, <<>>),
     Node("if_statement", 25, 31, <<27, 28, 32>>),
     Node("if", 25, 27, <<>>),
     Node("parenthesized_expression", 27, 30, <<29, 30, 31>>),
     Node("(", 27, 28, <<>>),
     Node("identifier", 28, 29, <<>>),
     Node(")", 29, 30, <<>>),
     Node("empty_statement", 30, 31, <<33>>),
     Node(";", 30, 31, <<>>),
     Node("if_statement", 31, 37, <<35, 36, 40>>),
     Node("if", 31, 33, <<>>),
     Node("parenthesized_expression", 33, 36, <<37, 38, 39>>),
     Node("(", 33, 34, <<>>),
     Node("identifier", 34, 35, <<>>),
     Node(")", 35, 36, <<>>),
     Node("empty_statement", 36, 37, <<41>>),
     Node(";", 36, 37, <<>>),
     Node("if_statement", 37, 43, <<43, 44, 48>>),
     Node("if", 37, 39, <<>>),
     Node("parenthesized_expression", 39, 42, <<45, 46, 47>>),
     Node("(", 39, 40, <<>>),
     Node("identifier", 40, 41, <<>>),
     Node(")", 41, 42, <<>>),
     Node("empty_statement", 42, 43, <<49>>),
     Node(";", 42, 43, <<>>),
     Node("if_statement", 43, 49, <<51, 52, 56>>),
     Node("if", 43, 45, <<>>),
     Node("parenthesized_expression", 45, 48, <<53, 54, 55>>),
     Node("(", 45, 46, <<>>),
     Node("identifier", 46, 47, <<>>),
     Node(")", 47, 48, <<>>),
     Node("empty_statement", 48, 49, <<57>>),
     Node(";", 48, 49, <<>>),
     Node("if_statement", 49, 55, <<59, 60, 64>>),
     Node("if", 49, 51, <<>>),
     Node("parenthesized_expression", 51, 54, <<61, 62, 63>>),
     Node("(", 51, 52, <<>>),
     Node("identifier", 52, 53, <<>>),
     Node(")", 53, 54, <<>>),
     Node("empty_statement", 54, 55, <<65>>),
     Node(";", 54, 55, <<>>),
     Node("if_statement", 55, 61, <<67, 68, 72>>),
     Node("if", 55, 57, <<>>),
     Node("parenthesized_expression", 57, 60, <<69, 70, 71>>),
     Node("(", 57, 58, <<>>),
     Node("identifier", 58, 59, <<>>),
     Node(")", 59, 60, <<>>),
     Node("empty_statement", 60, 61, <<73>>),
     Node(";", 60, 61, <<>>),
     Node("if_statement", 61, 67, <<75, 76, 80>>),
     Node("if", 61, 63, <<>>),
     Node("parenthesized_expression", 63, 66, <<77, 78, 79>>),
     Node("(", 63, 64, <<>>),
     Node("identifier", 64, 65, <<>>),
     Node(")", 65, 66, <<>>),
     Node("empty_statement", 66, 67, <<81>>),
     Node(";", 66, 67, <<>>),
     Node("}", 67, 68, <<>>)
   >>]

\* JavaScript: a function declaration with 10 if statements
\*   source text: function h(){if(a);if(a);if(a);if(a);if(a);if(a);if(a);if(a);if(a);if(a);}
SrcJsIfs10 ==
  [content |-> <<"f", "u", "n", "c", "t", "i", "o", "n", " ", "h", "(", ")", "{", "i", "f", "(", "a", ")", ";", "i", "f", "(", "a", ")", ";", "i", "f", "(", "a", ")", ";", "i", "f", "(", "a", ")", ";", "i", "f", "(", "a", ")", ";", "i", "f", "(", "a", ")", ";", "i", "f", "(", "a", ")", ";", "i", "f", "(", "a", ")", ";", "i", "f", "(", "a", ")", ";", "i", "f", "(", "a", ")", ";", "}">>,
   tree |-> <<
     Node("program", 0, 74, <<2>>),
     Node("function_declaration", 0, 74, <<3, 4, 5, 8>>),
     Node("function", 0, 8, <<>>),
     Node("identifier", 9, 10, <<>>),
     Node("formal_parameters", 10, 12, <<6, 7>>),
     Node("(", 10, 11, <<>>),
     Node(")", 11, 12, <<>>),
     Node("statement_block", 12, 74, <<9, 10, 18, 26, 34, 42, 50, 58, 66, 74, 82, 90>>),
     Node("{", 12, 13, <<>>),
     Node("if_statement", 13, 19, <<11, 12, 16>>),
     Node("if", 13, 15, <<>>),
     Node("parenthesized_expression", 15, 18, <<13, 14, 15>>),
     Node("(", 15, 16, <<>>),
     Node("identifier", 16, 17, <<>>),
     Node(")", 17, 18, <<>>),
     Node("empty_statement", 18, 19, <<17>>),
     Node(";", 18, 19, <<>>),
     Node("if_statement", 19, 25, <<19, 20, 24>>),
     Node("if", 19, 21, <<>>),
     Node("parenthesized_expression", 21, 24, <<21, 22, 23>>),
     Node("(", 21, 22, <<>>),
     Node("identifier", 22, 23, <<>>),
     Node(")", 23, 24, <<>>),
     Node("empty_statement", 24, 25, <<25>>),
     Node(";", 24, 25, <<>>),
     Node("if_statement", 25, 31, <<27, 28, 32>>),
     Node("if", 25, 27, <<>>),
     Node("parenthesized_expression", 27, 30, <<29, 30, 31>>),
     Node("(", 27, 28, <<>>),
     Node("identifier", 28, 29, <<>>),
     Node(")", 29, 30, <<>>),
     Node("empty_statement", 30, 31, <<33>>),
     Node(";", 30, 31, <<>>),
     Node("if_statement", 31, 37, <<35, 36, 40>>),
     Node("if", 31, 33, <<>>),
     Node("parenthesized_expression", 33, 36, <<37, 38, 39>>),
     Node("(", 33, 34, <<>>),
     Node("identifier", 34, 35, <<>>),
     Node(")", 35, 36, <<>>),
     Node("empty_statement", 36, 37, <<41>>),
     Node(";", 36, 37, <<>>),
     Node("if_statement", 37, 43, <<43, 44, 48>>),
     Node("if", 37, 39, <<>>),
     Node("parenthesized_expression", 39, 42, <<45, 46, 47>>),
     Node("(", 39, 40, <<>>),
     Node("identifier", 40, 41, <<>>),
     Node(")", 41, 42, <<>>),
     Node("empty_statement", 42, 43, <<49>>),
     Node(";", 42, 43, <<>>),
     Node("if_statement", 43, 49, <<51, 52, 56>>),
     Node("if", 43, 45, <<>>),
     Node("parenthesized_expression", 45, 48, <<53, 54, 55>>),
     Node("(", 45, 46, <<>>),
     Node("identifier", 46, 47, <<>>),
     Node(")", 47, 48, <<>>),
     Node("empty_statement", 48, 49, <<57>>),
     Node(";", 48, 49, <<>>),
     Node("if_statement", 49, 55, <<59, 60, 64>>),
     Node("if", 49, 51, <<>>),
     Node("parenthesized_expression", 51, 54, <<61, 62, 63>>),
     Node("(", 51, 52, <<>>),
     Node("identifier", 52, 53, <<>>),
     Node(")", 53, 54, <<>>),
     Node("empty_statement", 54, 55, <<65>>),
     Node(";", 54, 55, <<>>),
     Node("if_statement", 55, 61, <<67, 68, 72>>),
     Node("if", 55, 57, <<>>),
     Node("parenthesized_expression", 57, 60, <<69, 70, 71>>),
     Node("(", 57, 58, <<>>),
     Node("identifier", 58, 59, <<>>),
     Node(")", 59, 60, <<>>),
     Node("empty_statement", 60, 61, <<73>>),
     Node(";", 60, 61, <<>>),
     Node("if_statement", 61, 67, <<75, 76, 80>>),
     Node("if", 61, 63, <<>>),
     Node("parenthesized_expression", 63, 66, <<77, 78, 79>>),
     Node("(", 63, 64, <<>>),
     Node("identifier", 64, 65, <<>>),
     Node(")", 65, 66, <<>>),
     Node("empty_statement", 66, 67, <<81>>),
     Node(";", 66, 67, <<>>),
     Node("if_statement", 67, 73, <<83, 84, 88>>),
     Node("if", 67, 69, <<>>),
     Node("parenthesized_expression", 69, 72, <<85, 86, 87>>),
     Node("(", 69, 70, <<>>),
     Node("identifier", 70, 71, <<>>),
     Node(")", 71, 72, <<>>),
     Node("empty_statement", 72, 73, <<89>>),
     Node(";", 72, 73, <<>>),
     Node("}", 73, 74, <<>>)
   >>]

\* JavaScript: a function declaration with 19 if statements
\*   source text: function h(){if(a);if(a);if(a);if(a);if(a);if(a);if(a);if(a);if(a);if(a);if(a);if(a);if(a);if(a);if(a);if(a);if(a);if(a);if(a);}
SrcJsIfs19 ==
  [content |-> <<"f", "u", "n", "c", "t", "i", "o", "n", " ", "h", "(", ")", "{", "i", "f", "(", "a", ")", ";", "i", "f", "(", "a", ")", ";", "i", "f", "(", "a", ")", ";", "i", "f", "(", "a", ")", ";", "i", "f", "(", "a", ")", ";", "i", "f", "(", "a", ")", ";", "i", "f", "(", "a", ")", ";", "i", "f", "(", "a", ")", ";", "i", "f", "(", "a", ")", ";", "i", "f", "(", "a", ")", ";", "i", "f", "(", "a", ")", ";", "i", "f", "(", "a", ")", ";", "i", "f", "(", "a", ")", ";", "i", "f", "(", "a", ")", ";", "i", "f", "(", "a", ")", ";", "i", "f", "(", "a", ")", ";", "i", "f", "(", "a", ")", ";", "i", "f", "(", "a", ")", ";", "i", "f", "(", "a", ")", ";", "}">>,
   tree |-> <<
     Node("program", 0, 128, <<2>>),
     Node("function_declaration", 0, 128, <<3, 4, 5, 8>>),
     Node("function", 0, 8, <<>>),
     Node("identifier", 9, 10, <<>>),
     Node("formal_parameters", 10, 12, <<6, 7>>),
     Node("(", 10, 11, <<>>),
     Node(")", 11, 12, <<>>),
     Node("statement_block", 12, 128, <<9, 10, 18, 26, 34, 42, 50, 58, 66, 74, 82, 90, 98, 106, 114, 122, 130, 138, 146, 154, 162>>),
     Node("{", 12, 13, <<>>),
     Node("if_statement", 13, 19, <<11, 12, 16>>),
     Node("if", 13, 15, <<>>),
     Node("parenthesized_expression", 15, 18, <<13, 14, 15>>),
     Node("(", 15, 16, <<>>),
     Node("identifier", 16, 17, <<>>),
     Node(")", 17, 18, <<>>),
     Node("empty_statement", 18, 19, <<17>>),
     Node(";", 18, 19, <<>>),
     Node("if_statement", 19, 25, <<19, 20, 24>>),
     Node("if", 19, 21, <<>>),
     Node("parenthesized_expression", 21, 24, <<21, 22, 23>>),
     Node("(", 21, 22, <<>>),
     Node("identifier", 22, 23, <<>>),
     Node(")", 23, 24, <<>>),
     Node("empty_statement", 24, 25, <<25>>),
     Node(";", 24, 25, <<>>),
     Node("if_statement", 25, 31, <<27, 28, 32>>),
     Node("if", 25, 27, <<>>),
     Node("parenthesized_expression", 27, 30, <<29, 30, 31>>),
     Node("(", 27, 28, <<>>),
     Node("identifier", 28, 29, <<>>),
     Node(")", 29, 30, <<>>),
     Node("empty_statement", 30, 31, <<33>>),
     Node(";", 30, 31, <<>>),
     Node("if_statement", 31, 37, <<35, 36, 40>>),
     Node("if", 31, 33, <<>>),
     Node("parenthesized_expression", 33, 36, <<37, 38, 39>>),
     Node("(", 33, 34, <<>>),
     Node("identifier", 34, 35, <<>>),
     Node(")", 35, 36, <<>>),
     Node("empty_statement", 36, 37, <<41>>),
     Node(";", 36, 37, <<>>),
     Node("if_statement", 37, 43, <<43, 44, 48>>),
     Node("if", 37, 39, <<>>),
     Node("parenthesized_expression", 39, 42, <<45, 46, 47>>),
     Node("(", 39, 40, <<>>),
     Node("identifier", 40, 41, <<>>),
     Node(")", 41, 42, <<>>),
     Node("empty_statement", 42, 43, <<49>>),
     Node(";", 42, 43, <<>>),
     Node("if_statement", 43, 49, <<51, 52, 56>>),
     Node("if", 43, 45, <<>>),
     Node("parenthesized_expression", 45, 48, <<53, 54, 55>>),
     Node("(", 45, 46, <<>>),
     Node("identifier", 46, 47, <<>>),
     Node(")", 47, 48, <<>>),
     Node("empty_statement", 48, 49, <<57>>),
     Node(";", 48, 49, <<>>),
     Node("if_statement", 49, 55, <<59, 60, 64>>),
     Node("if", 49, 51, <<>>),
     Node("parenthesized_expression", 51, 54, <<61, 62, 63>>),
     Node("(", 51, 52, <<>>),
     Node("identifier", 52, 53, <<>>),
     Node(")", 53, 54, <<>>),
     Node("empty_statement", 54, 55, <<65>>),
     Node(";", 54, 55, <<>>),
     Node("if_statement", 55, 61, <<67, 68, 72>>),
     Node("if", 55, 57, <<>>),
     Node("parenthesized_expression", 57, 60, <<69, 70, 71>>),
     Node("(", 57, 58, <<>>),
     Node("identifier", 58, 59, <<>>),
     Node(")", 59, 60, <<>>),
     Node("empty_statement", 60, 61, <<73>>),
     Node(";", 60, 61, <<>>),
     Node("if_statement", 61, 67, <<75, 76, 80>>),
     Node("if", 61, 63, <<>>),
     Node("parenthesized_expression", 63, 66, <<77, 78, 79>>),
     Node("(", 63, 64, <<>>),
     Node("identifier", 64, 65, <<>>),
     Node(")", 65, 66, <<>>),
     Node("empty_statement", 66, 67, <<81>>),
     Node(";", 66, 67, <<>>),
     Node("if_statement", 67, 73, <<83, 84, 88>>),
     Node("if", 67, 69, <<>>),
     Node("parenthesized_expression", 69, 72, <<85, 86, 87>>),
     Node("(", 69, 70, <<>>),
     Node("identifier", 70, 71, <<>>),
     Node(")", 71, 72, <<>>),
     Node("empty_statement", 72, 73, <<89>>),
     Node(";", 72, 73, <<>>),
     Node("if_statement", 73, 79, <<91, 92, 96>>),
     Node("if", 73, 75, <<>>),
     Node("parenthesized_expression", 75, 78, <<93, 94, 95>>),
     Node("(", 75, 76, <<>>),
     Node("identifier", 76, 77, <<>>),
     Node(")", 77, 78, <<>>),
     Node("empty_statement", 78, 79, <<97>>),
     Node(";", 78, 79, <<>>),
     Node("if_statement", 79, 85, <<99, 100, 104>>),
     Node("if", 79, 81, <<>>),
     Node("parenthesized_expression", 81, 84, <<101, 102, 103>>),
     Node("(", 81, 82, <<>>),
     Node("identifier", 82, 83, <<>>),
     Node(")", 83, 84, <<>>),
     Node("empty_statement", 84, 85, <<105>>),
     Node(";", 84, 85, <<>>),
     Node("if_statement", 85, 91, <<107, 108, 112>>),
     Node("if", 85, 87, <<>>),
     Node("parenthesized_expression", 87, 90, <<109, 110, 111>>),
     Node("(", 87, 88, <<>>),
     Node("identifier", 88, 89, <<>>),
     Node(")", 89, 90, <<>>),
     Node("empty_statement", 90, 91, <<113>>),
     Node(";", 90, 91, <<>>),
     Node("if_statement", 91, 97, <<115, 116, 120>>),
     Node("if", 91, 93, <<>>),
     Node("parenthesized_expression", 93, 96, <<117, 118, 119>>),
     Node("(", 93, 94, <<>>),
     Node("identifier", 94, 95, <<>>),
     Node(")", 95, 96, <<>>),
     Node("empty_statement", 96, 97, <<121>>),
     Node(";", 96, 97, <<>>),
     Node("if_statement", 97, 103, <<123, 124, 128>>),
     Node("if", 97, 99, <<>>),
     Node("parenthesized_expression", 99, 102, <<125, 126, 127>>),
     Node("(", 99, 100, <<>>),
     Node("identifier", 100, 101, <<>>),
     Node(")", 101, 102, <<>>),
     Node("empty_statement", 102, 103, <<129>>),
     Node(";", 102, 103, <<>>),
     Node("if_statement", 103, 109, <<131, 132, 136>>),
     Node("if", 103, 105, <<>>),
     Node("parenthesized_expression", 105, 108, <<133, 134, 135>>),
     Node("(", 105, 106, <<>>),
     Node("identifier", 106, 107, <<>>),
     Node(")", 107, 108, <<>>),
     Node("empty_statement", 108, 109, <<137>>),
     Node(";", 108, 109, <<>>),
     Node("if_statement", 109, 115, <<139, 140, 144>>),
     Node("if", 109, 111, <<>>),
     Node("parenthesized_expression", 111, 114, <<141, 142, 143>>),
     Node("(", 111, 112, <<>>),
     Node("identifier", 112, 113, <<>>),
     Node(")", 113, 114, <<>>),
     Node("empty_statement", 114, 115, <<145>>),
     Node(";", 114, 115, <<>>),
     Node("if_statement", 115, 121, <<147, 148, 152>>),
     Node("if", 115, 117, <<>>),
     Node("parenthesized_expression", 117, 120, <<149, 150, 151>>),
     Node("(", 117, 118, <<>>),
     Node("identifier", 118, 119, <<>>),
     Node(")", 119, 120, <<>>),
     Node("empty_statement", 120, 121, <<153>>),
     Node(";", 120, 121, <<>>),
     Node("if_statement", 121, 127, <<155, 156, 160>>),
     Node("if", 121, 123, <<>>),
     Node("parenthesized_expression", 123, 126, <<157, 158, 159>>),
     Node("(", 123, 124, <<>>),
     Node("identifier", 124, 125, <<>>),
     Node(")", 125, 126, <<>>),
     Node("empty_statement", 126, 127, <<161>>),
     Node(";", 126, 127, <<>>),
     Node("}", 127, 128, <<>>)
   >>]

\* JavaScript: a function declaration with 20 if statements
\*   source text: function h(){if(a);if(a);if(a);if(a);if(a);if(a);if(a);if(a);if(a);if(a);if(a);if(a);if(a);if(a);if(a);if(a);if(a);if(a);if(a);if(a);}
SrcJsIfs20 ==
  [content |-> <<"f", "u", "n", "c", "t", "i", "o", "n", " ", "h", "(", ")", "{", "i", "f", "(", "a", ")", ";", "i", "f", "(", "a", ")", ";", "i", "f", "(", "a", ")", ";", "i", "f", "(", "a", ")", ";", "i", "f", "(", "a", ")", ";", "i", "f", "(", "a", ")", ";", "i", "f", "(", "a", ")", ";", "i", "f", "(", "a", ")", ";", "i", "f", "(", "a", ")", ";", "i", "f", "(", "a", ")", ";", "i", "f", "(", "a", ")", ";", "i", "f", "(", "a", ")", ";", "i", "f", "(", "a", ")", ";", "i", "f", "(", "a", ")", ";", "i", "f", "(", "a", ")", ";", "i", "f", "(", "a", ")", ";", "i", "f", "(", "a", ")", ";", "i", "f", "(", "a", ")", ";", "i", "f", "(", "a", ")", ";", "i", "f", "(", "a", ")", ";", "}">>,
   tree |-> <<
     Node("program", 0, 134, <<2>>),
     Node("function_declaration", 0, 134, <<3, 4, 5, 8>>),
     Node("function", 0, 8, <<>>),
     Node("identifier", 9, 10, <<>>),
     Node("formal_parameters", 10, 12, <<6, 7>>),
     Node("(", 10, 11, <<>>),
     Node(")", 11, 12, <<>>),
     Node("statement_block", 12, 134, <<9, 10, 18, 26, 34, 42, 50, 58, 66, 74, 82, 90, 98, 106, 114, 122, 130, 138, 146, 154, 162, 170>>),
     Node("{", 12, 13, <<>>),
     Node("if_statement", 13, 19, <<11, 12, 16>>),
     Node("if", 13, 15, <<>>),
     Node("parenthesized_expression", 15, 18, <<13, 14, 15>>),
     Node("(", 15, 16, <<>>),
     Node("identifier", 16, 17, <<>>),
     Node(")", 17, 18, <<>>),
     Node("empty_statement", 18, 19, <<17>>),
     Node(";", 18, 19, <<>>),
     Node("if_statement", 19, 25, <<19, 20, 24>>),
     Node("if", 19, 21, <<>>),
     Node("parenthesized_expression", 21, 24, <<21, 22, 23>>),
     Node("(", 21, 22, <<>>),
     Node("identifier", 22, 23, <<>>),
     Node(")", 23, 24, <<>>),
     Node("empty_statement", 24, 25, <<25>>),
     Node(";", 24, 25, <<>>),
     Node("if_statement", 25, 31, <<27, 28, 32>>),
     Node("if", 25, 27, <<>>),
     Node("parenthesized_expression", 27, 30, <<29, 30, 31>>),
     Node("(", 27, 28, <<>>),
     Node("identifier", 28, 29, <<>>),
     Node(")", 29, 30, <<>>),
     Node("empty_statement", 30, 31, <<33>>),
     Node(";", 30, 31, <<>>),
     Node("if_statement", 31, 37, <<35, 36, 40>>),
     Node("if", 31, 33, <<>>),
     Node("parenthesized_expression", 33, 36, <<37, 38, 39>>),
     Node("(", 33, 34, <<>>),
     Node("identifier", 34, 35, <<>>),
     Node(")", 35, 36, <<>>),
     Node("empty_statement", 36, 37, <<41>>),
     Node(";", 36, 37, <<>>),
     Node("if_statement", 37, 43, <<43, 44, 48>>),
     Node("if", 37, 39, <<>>),
     Node("parenthesized_expression", 39, 42, <<45, 46, 47>>),
     Node("(", 39, 40, <<>>),
     Node("identifier", 40, 41, <<>>),
     Node(")", 41, 42, <<>>),
     Node("empty_statement", 42, 43, <<49>>),
     Node(";", 42, 43, <<>>),
     Node("if_statement", 43, 49, <<51, 52, 56>>),
     Node("if", 43, 45, <<>>),
     Node("parenthesized_expression", 45, 48, <<53, 54, 55>>),
     Node("(", 45, 46, <<>>),
     Node("identifier", 46, 47, <<>>),
     Node(")", 47, 48, <<>>),
     Node("empty_statement", 48, 49, <<57>>),
     Node(";", 48, 49, <<>>),
     Node("if_statement", 49, 55, <<59, 60, 64>>),
     Node("if", 49, 51, <<>>),
     Node("parenthesized_expression", 51, 54, <<61, 62, 63>>),
     Node("(", 51, 52, <<>>),
     Node("identifier", 52, 53, <<>>),
     Node(")", 53, 54, <<>>),
     Node("empty_statement", 54, 55, <<65>>),
     Node(";", 54, 55, <<>>),
     Node("if_statement", 55, 61, <<67, 68, 72>>),
     Node("if", 55, 57, <<>>),
     Node("parenthesized_expression", 57, 60, <<69, 70, 71>>),
     Node("(", 57, 58, <<>>),
     Node("identifier", 58, 59, <<>>),
     Node(")", 59, 60, <<>>),
     Node("empty_statement", 60, 61, <<73>>),
     Node(";", 60, 61, <<>>),
     Node("if_statement", 61, 67, <<75, 76, 80>>),
     Node("if", 61, 63, <<>>),
     Node("parenthesized_expression", 63, 66, <<77, 78, 79>>),
     Node("(", 63, 64, <<>>),
     Node("identifier", 64, 65, <<>>),
     Node(")", 65, 66, <<>>),
     Node("empty_statement", 66, 67, <<81>>),
     Node(";", 66, 67, <<>>),
     Node("if_statement", 67, 73, <<83, 84, 88>>),
     Node("if", 67, 69, <<>>),
     Node("parenthesized_expression", 69, 72, <<85, 86, 87>>),
     Node("(", 69, 70, <<>>),
     Node("identifier", 70, 71, <<>>),
     Node(")", 71, 72, <<>>),
     Node("empty_statement", 72, 73, <<89>>),
     Node(";", 72, 73, <<>>),
     Node("if_statement", 73, 79, <<91, 92, 96>>),
     Node("if", 73, 75, <<>>),
     Node("parenthesized_expression", 75, 78, <<93, 94, 95>>),
     Node("(", 75, 76, <<>>),
     Node("identifier", 76, 77, <<>>),
     Node(")", 77, 78, <<>>),
     Node("empty_statement", 78, 79, <<97>>),
     Node(";", 78, 79, <<>>),
     Node("if_statement", 79, 85, <<99, 100, 104>>),
     Node("if", 79, 81, <<>>),
     Node("parenthesized_expression", 81, 84, <<101, 102, 103>>),
     Node("(", 81, 82, <<>>),
     Node("identifier", 82, 83, <<>>),
     Node(")", 83, 84, <<>>),
     Node("empty_statement", 84, 85, <<105>>),
     Node(";", 84, 85, <<>>),
     Node("if_statement", 85, 91, <<107, 108, 112>>),
     Node("if", 85, 87, <<>>),
     Node("parenthesized_expression", 87, 90, <<109, 110, 111>>),
     Node("(", 87, 88, <<>>),
     Node("identifier", 88, 89, <<>>),
     Node(")", 89, 90, <<>>),
     Node("empty_statement", 90, 91, <<113>>),
     Node(";", 90, 91, <<>>),
     Node("if_statement", 91, 97, <<115, 116, 120>>),
     Node("if", 91, 93, <<>>),
     Node("parenthesized_expression", 93, 96, <<117, 118, 119>>),
     Node("(", 93, 94, <<>>),
     Node("identifier", 94, 95, <<>>),
     Node(")", 95, 96, <<>>),
     Node("empty_statement", 96, 97, <<121>>),
     Node(";", 96, 97, <<>>),
     Node("if_statement", 97, 103, <<123, 124, 128>>),
     Node("if", 97, 99, <<>>),
     Node("parenthesized_expression", 99, 102, <<125, 126, 127>>),
     Node("(", 99, 100, <<>>),
     Node("identifier", 100, 101, <<>>),
     Node(")", 101, 102, <<>>),
     Node("empty_statement", 102, 103, <<129>>),
     Node(";", 102, 103, <<>>),
     Node("if_statement", 103, 109, <<131, 132, 136>>),
     Node("if", 103, 105, <<>>),
     Node("parenthesized_expression", 105, 108, <<133, 134, 135>>),
     Node("(", 105, 106, <<>>),
     Node("identifier", 106, 107, <<>>),
     Node(")", 107, 108, <<>>),
     Node("empty_statement", 108, 109, <<137>>),
     Node(";", 108, 109, <<>>),
     Node("if_statement", 109, 115, <<139, 140, 144>>),
     Node("if", 109, 111, <<>>),
     Node("parenthesized_expression", 111, 114, <<141, 142, 143>>),
     Node("(", 111, 112, <<>>),
     Node("identifier", 112, 113, <<>>),
     Node(")", 113, 114, <<>>),
     Node("empty_statement", 114, 115, <<145>>),
     Node(";", 114, 115, <<>>),
     Node("if_statement", 115, 121, <<147, 148, 152>>),
     Node("if", 115, 117, <<>>),
     Node("parenthesized_expression", 117, 120, <<149, 150, 151>>),
     Node("(", 117, 118, <<>>),
     Node("identifier", 118, 119, <<>>),
     Node(")", 119, 120, <<>>),
     Node("empty_statement", 120, 121, <<153>>),
     Node(";", 120, 121, <<>>),
     Node("if_statement", 121, 127, <<155, 156, 160>>),
     Node("if", 121, 123, <<>>),
     Node("parenthesized_expression", 123, 126, <<157, 158, 159>>),
     Node("(", 123, 124, <<>>),
     Node("identifier", 124, 125, <<>>),
     Node(")", 125, 126, <<>>),
     Node("empty_statement", 126, 127, <<161>>),
     Node(";", 126, 127, <<>>),
     Node("if_statement", 127, 133, <<163, 164, 168>>),
     Node("if", 127, 129, <<>>),
     Node("parenthesized_expression", 129, 132, <<165, 166, 167>>),
     Node("(", 129, 130, <<>>),
     Node("identifier", 130, 131, <<>>),
     Node(")", 131, 132, <<>>),
     Node("empty_statement", 132, 133, <<169>>),
     Node(";", 132, 133, <<>>),
     Node("}", 133, 134, <<>>)
   >>]

\* JavaScript: an arrow function without a name, 11 if statements
\*   source text: ()=>{if(a);if(a);if(a);if(a);if(a);if(a);if(a);if(a);if(a);if(a);if(a);}
SrcArrow11 ==
  [content |-> <<"(", ")", "=", ">", "{", "i", "f", "(", "a", ")", ";", "i", "f", "(", "a", ")", ";", "i", "f", "(", "a", ")", ";", "i", "f", "(", "a", ")", ";", "i", "f", "(", "a", ")", ";", "i", "f", "(", "a", ")", ";", "i", "f", "(", "a", ")", ";", "i", "f", "(", "a", ")", ";", "i", "f", "(", "a", ")", ";", "i", "f", "(", "a", ")", ";", "i", "f", "(", "a", ")", ";", "}">>,
   tree |-> <<
     Node("program", 0, 72, <<2>>),
     Node("expression_statement", 0, 72, <<3>>),
     Node("arrow_function", 0, 72, <<4, 7, 8>>),
     Node("formal_parameters", 0, 2, <<5, 6>>),
     Node("(", 0, 1, <<>>),
     Node(")", 1, 2, <<>>),
     Node("=>", 2, 4, <<>>),
     Node("statement_block", 4, 72, <<9, 10, 18, 26, 34, 42, 50, 58, 66, 74, 82, 90, 98>>),
     Node("{", 4, 5, <<>>),
     Node("if_statement", 5, 11, <<11, 12, 16>>),
     Node("if", 5, 7, <<>>),
     Node("parenthesized_expression", 7, 10, <<13, 14, 15>>),
     Node("(", 7, 8, <<>>),
     Node("identifier", 8, 9, <<>>),
     Node(")", 9, 10, <<>>),
     Node("empty_statement", 10, 11, <<17>>),
     Node(";", 10, 11, <<>>),
     Node("if_statement", 11, 17, <<19, 20, 24>>),
     Node("if", 11, 13, <<>>),
     Node("parenthesized_expression", 13, 16, <<21, 22, 23>>),
     Node("(", 13, 14, <<>>),
     Node("identifier", 14, 15, <<>>),
     Node(")", 15, 16, <<>>),
     Node("empty_statement", 16, 17, <<25>>),
     Node(";", 16, 17, <<>>),
     Node("if_statement", 17, 23, <<27, 28, 32>>),
     Node("if", 17, 19, <<>>),
     Node("parenthesized_expression", 19, 22, <<29, 30, 31>>),
     Node("(", 19, 20, <<>>),
     Node("identifier", 20, 21, <<>>),
     Node(")", 21, 22, <<>>),
     Node("empty_statement", 22, 23, <<33>>),
     Node(";", 22, 23, <<>>),
     Node("if_statement", 23, 29, <<35, 36, 40>>),
     Node("if", 23, 25, <<>>),
     Node("parenthesized_expression", 25, 28, <<37, 38, 39>>),
     Node("(", 25, 26, <<>>),
     Node("identifier", 26, 27, <<>>),
     Node(")", 27, 28, <<>>),
     Node("empty_statement", 28, 29, <<41>>),
     Node(";", 28, 29, <<>>),
     Node("if_statement", 29, 35, <<43, 44, 48>>),
     Node("if", 29, 31, <<>>),
     Node("parenthesized_expression", 31, 34, <<45, 46, 47>>),
     Node("(", 31, 32, <<>>),
     Node("identifier", 32, 33, <<>>),
     Node(")", 33, 34, <<>>),
     Node("empty_statement", 34, 35, <<49>>),
     Node(";", 34, 35, <<>>),
     Node("if_statement", 35, 41, <<51, 52, 56>>),
     Node("if", 35, 37, <<>>),
     Node("parenthesized_expression", 37, 40, <<53, 54, 55>>),
     Node("(", 37, 38, <<>>),
     Node("identifier", 38, 39, <<>>),
     Node(")", 39, 40, <<>>),
     Node("empty_statement", 40, 41, <<57>>),
     Node(";", 40, 41, <<>>),
     Node("if_statement", 41, 47, <<59, 60, 64>>),
     Node("if", 41, 43, <<>>),
     Node("parenthesized_expression", 43, 46, <<61, 62, 63>>),
     Node("(", 43, 44, <<>>),
     Node("identifier", 44, 45, <<>>),
     Node(")", 45, 46, <<>>),
     Node("empty_statement", 46, 47, <<65>>),
     Node(";", 46, 47, <<>>),
     Node("if_statement", 47, 53, <<67, 68, 72>>),
     Node("if", 47, 49, <<>>),
     Node("parenthesized_expression", 49, 52, <<69, 70, 71>>),
     Node("(", 49, 50, <<>>),
     Node("identifier", 50, 51, <<>>),
     Node(")", 51, 52, <<>>),
     Node("empty_statement", 52, 53, <<73>>),
     Node(";", 52, 53, <<>>),
     Node("if_statement", 53, 59, <<75, 76, 80>>),
     Node("if", 53, 55, <<>>),
     Node("parenthesized_expression", 55, 58, <<77, 78, 79>>),
     Node("(", 55, 56, <<>>),
     Node("identifier", 56, 57, <<>>),
     Node(")", 57, 58, <<>>),
     Node("empty_statement", 58, 59, <<81>>),
     Node(";", 58, 59, <<>>),
     Node("if_statement", 59, 65, <<83, 84, 88>>),
     Node("if", 59, 61, <<>>),
     Node("parenthesized_expression", 61, 64, <<85, 86, 87>>),
     Node("(", 61, 62, <<>>),
     Node("identifier", 62, 63, <<>>),
     Node(")", 63, 64, <<>>),
     Node("empty_statement", 64, 65, <<89>>),
     Node(";", 64, 65, <<>>),
     Node("if_statement", 65, 71, <<91, 92, 96>>),
     Node("if", 65, 67, <<>>),
     Node("parenthesized_expression", 67, 70, <<93, 94, 95>>),
     Node("(", 67, 68, <<>>),
     Node("identifier", 68, 69, <<>>),
     Node(")", 69, 70, <<>>),
     Node("empty_statement", 70, 71, <<97>>),
     Node(";", 70, 71, <<>>),
     Node("}", 71, 72, <<>>)
   >>]

\* JavaScript: an arrow function without a name
\*   source text: ()=>{}
SrcArrow0 ==
  [content |-> <<"(", ")", "=", ">", "{", "}">>,
   tree |-> <<
     Node("program", 0, 6, <<2>>),
     Node("expression_statement", 0, 6, <<3>>),
     Node("arrow_function", 0, 6, <<4, 7, 8>>),
     Node("formal_parameters", 0, 2, <<5, 6>>),
     Node("(", 0, 1, <<>>),
     Node(")", 1, 2, <<>>),
     Node("=>", 2, 4, <<>>),
     Node("statement_block", 4, 6, <<9, 10>>),
     Node("{", 4, 5, <<>>),
     Node("}", 5, 6, <<>>)
   >>]
-----------------------------------------------------------------------------
(* The repositories the walks are run on.                                  *)

\* the sample a repository file holds, by name
Source(id) ==
  CASE id = "Empty" -> SrcEmpty
    [] id = "ImportA" -> SrcImportA
    [] id = "ImportB" -> SrcImportB
    [] id = "ImportNumpy" -> SrcImportNumpy
    [] id = "ImportOs" -> SrcImportOs
    [] id = "ImportPkgB" -> SrcImportPkgB
    [] id = "ImportsBCD" -> SrcImportsBCD
    [] id = "ImportsACD" -> SrcImportsACD
    [] id = "ImportsABD" -> SrcImportsABD
    [] id = "ImportsABC" -> SrcImportsABC
    [] id = "FuncAndClassF" -> SrcFuncAndClassF
    [] id = "TwoFuncsF" -> SrcTwoFuncsF
    [] id = "ClassC" -> SrcClassC
    [] id = "PyFuncs" -> SrcPyFuncs
    [] id = "JsFuncs" -> SrcJsFuncs
    [] id = "JsIfs4" -> SrcJsIfs4
    [] id = "JsIfs5" -> SrcJsIfs5
    [] id = "JsIfs9" -> SrcJsIfs9
    [] id = "JsIfs10" -> SrcJsIfs10
    [] id = "JsIfs19" -> SrcJsIfs19
    [] id = "JsIfs20" -> SrcJsIfs20
    [] id = "Arrow11" -> SrcArrow11
    [] id = "Arrow0" -> SrcArrow0
    [] id = "FromDotBImportX" -> SrcFromDotBImportX
    [] id = "FromBImportX" -> SrcFromBImportX
    [] id = "FromBImportXY" -> SrcFromBImportXY
    [] id = "ImportBTwice" -> SrcImportBTwice

File(path, id) == [path |-> path, src |-> id]
TreeOf(f) == Source(f.src).tree
ContentOf(f) == Source(f.src).content

A_py == <<"a", ".", "p", "y">>
B_py == <<"b", ".", "p", "y">>
C_py == <<"c", ".", "p", "y">>
D_py == <<"d", ".", "p", "y">>
X_py == <<"x", ".", "p", "y">>
Y_py == <<"y", ".", "p", "y">>
Host_py == <<"h", "o", "s", "t", ".", "p", "y">>
Pkg_a_py == <<"p", "k", "g", "/", "a", ".", "p", "y">>
Pkg_b_py == <<"p", "k", "g", "/", "b", ".", "p", "y">>
G_js == <<"g", ".", "j", "s">>
H_js == <<"h", ".", "j", "s">>
W_ts == <<"w", ".", "t", "s">>
Readme_md == <<"R", "E", "A", "D", "M", "E", ".", "m", "d">>

-----------------------------------------------------------------------------
(* backend/analysis.py: the complexity scorer.                             *)

AmbiguousTypes == {"boolean_operator", "binary_expression"}

\* the operator texts calculate_cyclomatic_complexity looks for
LogicalOps == { <<"&", "&">>, <<"|", "|">>,
                <<" ", "a", "n", "d", " ">>, <<" ", "o", "r", " ">> }

\* any(op in operator for op in ['&&', '||', ' and ', ' or '])
HasLogicalOp(text) == \E op \in LogicalOps : Contains(op, text)

\* NodeIncrement without the look at the text of an ambiguous node: every
\* binary node counts.
NodeIncrementUnconditional(tree, content, n) ==
  IF tree[n].type \in DECISION_NODE_TYPES THEN 1 ELSE 0

\* What visiting node n adds to the running complexity.
NodeIncrement(tree, content, n) ==
  IF tree[n].type \in DECISION_NODE_TYPES
  THEN IF tree[n].type \in AmbiguousTypes
       THEN IF HasLogicalOp(NodeText(content, tree[n])) THEN 1 ELSE 0
       ELSE 1
  ELSE 0

\* traverse(n) of calculate_cyclomatic_complexity: what the visit of n and of
\* the nodes below it, children from left to right, adds to the nonlocal
\* counter.
RECURSIVE traverse(_, _, _)
RECURSIVE traverseChildren(_, _, _, _)
traverse(tree, content, n) ==
  NodeIncrement(tree, content, n)
    + traverseChildren(tree, content, tree[n].children, 1)

traverseChildren(tree, content, kids, k) ==
  IF k > Len(kids) THEN 0
  ELSE traverse(tree, content, kids[k])
         + traverseChildren(tree, content, kids, k + 1)

\* calculate_cyclomatic_complexity without the base complexity of 1
ComplexityWithoutBase(tree, content, node) == traverse(tree, content, node)

calculate_cyclomatic_complexity(tree, content, node) ==
  1 + traverse(tree, content, node)

\* find_functions(node): the function-like nodes under node, in pre-order
RECURSIVE find_functions(_, _)
RECURSIVE findInChildren(_, _, _)
find_functions(tree, n) ==
  (IF tree[n].type \in FUNCTION_NODE_TYPES THEN <<n>> ELSE << >>)
    \o findInChildren(tree, tree[n].children, 1)

findInChildren(tree, kids, k) ==
  IF k > Len(kids) THEN << >>
  ELSE find_functions(tree, kids[k]) \o findInChildren(tree, kids, k + 1)

\* The name of a definition: the text of its first child of one of the given
\* types, None (the empty text here, which is as falsy) if it has none.
RECURSIVE FirstChildText(_, _, _, _, _)
FirstChildText(tree, content, kids, k, types) ==
  IF k > Len(kids) THEN << >>
  ELSE IF tree[kids[k]].type \in types THEN NodeText(content, tree[kids[k]])
  ELSE FirstChildText(tree, content, kids, k + 1, types)

Unknown == <<"u", "n", "k", "n", "o", "w", "n">>

\* float('inf'), the start value of min_complexity: complexities are
\* counts, so a negative number is free to stand for it
Inf == -1

InitResults ==
  [complexities |-> << >>, total_functions |-> 0, max_complexity |-> 0,
   min_complexity |-> Inf, files_analyzed |-> 0,
   complexity_distribution |-> [low |-> 0, medium |-> 0, high |-> 0, very_high |-> 0],
   complex_functions |-> << >>]

\* Bucket with the upper ends excluded
BucketExclusive(complexity) ==
  IF complexity < LowMax THEN "low"
  ELSE IF complexity < MediumMax THEN "medium"
  ELSE IF complexity < HighMax THEN "high"
  ELSE "very_high"

\* the bucket a complexity is counted in
Bucket(complexity) ==
  IF complexity <= LowMax THEN "low"
  ELSE IF complexity <= MediumMax THEN "medium"
  ELSE IF complexity <= HighMax THEN "high"
  ELSE "very_high"

\* AppendComplex with the medium threshold included
AppendComplexFromMedium(list, rel_path, func_name, text, complexity) ==
  IF complexity >= MediumMax
  THEN Append(list, [file_path |-> rel_path,
                     function_name |-> IF func_name # << >> THEN func_name ELSE Unknown,
                     content |-> text,
                     complexity |-> complexity])
  ELSE list

\* the list complex_functions after a function of this complexity
AppendComplex(list, rel_path, func_name, text, complexity) ==
  IF complexity > MediumMax
  THEN Append(list, [file_path |-> rel_path,
                     function_name |-> IF func_name # << >> THEN func_name ELSE Unknown,
                     content |-> text,
                     complexity |-> complexity])
  ELSE list

\* One iteration of "for node in function_nodes".
ScoreFunction(res, tree, content, rel_path, node) ==
  LET func_name == FirstChildText(tree, content, tree[node].children, 1,
                                  {"identifier", "property_identifier"})
      complexity == calculate_cyclomatic_complexity(tree, content, node)
      bucket == Bucket(complexity)
  IN [res EXCEPT
       !.total_functions = @ + 1,
       !.complexities = Append(@, complexity),
       !.max_complexity = Max(@, complexity),
       !.min_complexity = IF complexity > 0
                          THEN (IF @ = Inf THEN complexity ELSE Min(@, complexity))
                          ELSE @,
       !.complex_functions = AppendComplex(@, rel_path, func_name,
                                           NodeText(content, tree[node]), complexity),
       !.complexity_distribution[bucket] = @ + 1]

RECURSIVE ScoreFunctions(_, _, _, _, _, _)
ScoreFunctions(res, tree, content, rel_path, nodes, k) ==
  IF k > Len(nodes) THEN res
  ELSE ScoreFunctions(ScoreFunction(res, tree, content, rel_path, nodes[k]),
                      tree, content, rel_path, nodes, k + 1)

\* What a file does to the try block of lines 250-310: "ok"; "read_error",
\* open or read raises, before anything is counted; "walk_error",
\* find_functions raises (RecursionError on a deeply nested tree), after
\* files_analyzed was counted.  Nothing raises inside the loop over
\* function_nodes: the slices and decode(errors='ignore') do not raise, and
\* calculate_cyclomatic_complexity recurses from a node below the root, no
\* deeper than find_functions did.
Outcomes == {"ok", "read_error", "walk_error"}

\* The body of the file loop of analyze_functions for repo[cx_i].
AnalyzeFile ==
  /\ cx_pc = "walk"
  /\ cx_i <= Len(repo)
  /\ LET f == repo[cx_i]
         ext == Splitext(f.path)[2]
     IN IF ext \notin SourceExts \/ get_parser_and_language(ext) = "none"
        THEN /\ results' = results
             /\ cx_log' = Append(cx_log, "skipped")
        ELSE \E outcome \in Outcomes :
               /\ cx_log' = Append(cx_log, outcome)
               /\ results' =
                    IF outcome = "read_error" THEN results
                    ELSE IF outcome = "walk_error"
                    THEN [results EXCEPT !.files_analyzed = @ + 1]
                    ELSE ScoreFunctions([results EXCEPT !.files_analyzed = @ + 1],
                                        TreeOf(f), ContentOf(f), f.path,
                                        find_functions(TreeOf(f), 1), 1)
  /\ cx_i' = cx_i + 1
  /\ cx_pc' = cx_pc
  /\ UNCHANGED <<repo, earlier, graph_json, jobVars, depVars>>

\* After the loop: a min_complexity still infinite is reported as 0.
AnalyzeReturn ==
  /\ cx_pc = "walk"
  /\ cx_i > Len(repo)
  /\ results' = [results EXCEPT !.min_complexity = IF @ = Inf THEN 0 ELSE @]
  /\ cx_pc' = "done"
  /\ UNCHANGED <<repo, earlier, graph_json, jobVars, cx_i, cx_log, depVars>>

-----------------------------------------------------------------------------
\* the number of files of a repository
MaxFiles == 2

\* the sequences of at most n files of a catalogue, no path twice
RECURSIVE ReposOf(_, _)
ReposOf(catalogue, n) ==
  IF n = 0 THEN { << >> }
  ELSE LET shorter == ReposOf(catalogue, n - 1)
       IN shorter \cup
          { Append(r, f) : r \in {q \in shorter : Len(q) = n - 1},
                           f \in catalogue } 

DistinctPaths(r) == \A i, j \in 1..Len(r) : i # j => r[i].path # r[j].path

CxCatalogue ==
  { File(A_py, "PyFuncs"), File(G_js, "JsFuncs"),
    File(H_js, "JsIfs4"), File(H_js, "JsIfs5"), File(H_js, "JsIfs9"),
    File(H_js, "JsIfs10"), File(H_js, "JsIfs19"), File(H_js, "JsIfs20"),
    File(W_ts, "Arrow11"), File(W_ts, "Arrow0"),
    File(Readme_md, "Empty") }

CxRepos == {r \in ReposOf(CxCatalogue, MaxFiles) : DistinctPaths(r)}

EmptyGraph == [order |-> << >>, attr |-> << >>, edges |-> << >>]

DepIdle ==
  /\ dep_pc = "idle"
  /\ dep_i = 1
  /\ dep_j = 1
  /\ G = EmptyGraph
  /\ file_data = [keys |-> << >>, val |-> << >>]
  /\ dep_log = << >>
  /\ report = << >>

CxIdle ==
  /\ cx_pc = "idle"
  /\ cx_i = 1
  /\ results = InitResults
  /\ cx_log = << >>

\* analyze_functions on a repository
InitCx ==
  /\ repo \in CxRepos
  /\ cx_pc = "walk"
  /\ cx_i = 1
  /\ results = InitResults
  /\ cx_log = << >>
  /\ DepIdle
  /\ earlier = << >>
  /\ graph_json = << >>
  /\ JobIdle

NextCx == AnalyzeFile \/ AnalyzeReturn

SpecCx == InitCx /\ [][NextCx]_vars

-----------------------------------------------------------------------------
(* backend/dependency_analysis.py: what is extracted from a tree.          *)

Import(kind, module, items) == [type |-> kind, module |-> module, items |-> items]

\* the imports an import_statement node of Python yields: one per child of
\* type dotted_name
RECURSIVE PyImportStatement(_, _, _, _)
PyImportStatement(tree, content, kids, k) ==
  IF k > Len(kids) THEN << >>
  ELSE (IF tree[kids[k]].type = "dotted_name"
        THEN << Import("import", NodeText(content, tree[kids[k]]), << >>) >>
        ELSE << >>)
       \o PyImportStatement(tree, content, kids, k + 1)

\* the loop over the children of an import_from_statement node: <<module,
\* items>> after the children from k on, module = << >> standing for None
RECURSIVE PyFromChildren(_, _, _, _, _, _)
PyFromChildren(tree, content, kids, k, module, items) ==
  IF k > Len(kids) THEN <<module, items>>
  ELSE LET child == tree[kids[k]]
           text == NodeText(content, child)
       IN IF child.type = "dotted_name"
          THEN PyFromChildren(tree, content, kids, k + 1, text, items)
          ELSE IF child.type = "import_prefix"
          THEN PyFromChildren(tree, content, kids, k + 1, text, items)
          ELSE IF child.type \in {"dotted_name", "identifier", "aliased_import"}
          THEN PyFromChildren(tree, content, kids, k + 1, module,
                 IF ~Contains(<<"i", "m", "p", "o", "r", "t">>, text)
                    /\ ~Contains(<<"f", "r", "o", "m">>, text)
                 THEN Append(items, text) ELSE items)
          ELSE PyFromChildren(tree, content, kids, k + 1, module, items)

PyImportFrom(tree, content, n) ==
  LET mi == PyFromChildren(tree, content, tree[n].children, 1, << >>, << >>)
  IN IF mi[1] # << >> THEN << Import("from_import", mi[1], mi[2]) >> ELSE << >>

\* extract_python_imports: traverse(node) in pre-order
RECURSIVE extract_python_imports(_, _, _)
RECURSIVE pyImportsOfChildren(_, _, _, _)
extract_python_imports(tree, content, n) ==
  (IF tree[n].type = "import_statement"
   THEN PyImportStatement(tree, content, tree[n].children, 1)
   ELSE IF tree[n].type = "import_from_statement"
   THEN PyImportFrom(tree, content, n)
   ELSE << >>)
  \o pyImportsOfChildren(tree, content, tree[n].children, 1)

pyImportsOfChildren(tree, content, kids, k) ==
  IF k > Len(kids) THEN << >>
  ELSE extract_python_imports(tree, content, kids[k])
       \o pyImportsOfChildren(tree, content, kids, k + 1)

\* s.strip('"\''): s without its leading and trailing quote characters
Quotes == {"\"", "'"}
StripQuotes(s) ==
  LET keep == {i \in 1..Len(s) : s[i] \notin Quotes}
      lo == IF keep = {} THEN 1 ELSE CHOOSE i \in keep : \A k \in keep : i <= k
      hi == IF keep = {} THEN 0 ELSE CHOOSE i \in keep : \A k \in keep : k <= i
  IN SubSeq(s, lo, hi)

\* the loop over the children of an import_statement node of JavaScript
RECURSIVE JsImportChildren(_, _, _, _, _, _)
JsImportChildren(tree, content, kids, k, module, items) ==
  IF k > Len(kids) THEN <<module, items>>
  ELSE LET child == tree[kids[k]]
           text == NodeText(content, child)
       IN IF child.type = "string"
          THEN JsImportChildren(tree, content, kids, k + 1, StripQuotes(text), items)
          ELSE IF child.type = "import_clause"
          THEN JsImportChildren(tree, content, kids, k + 1, module, Append(items, text))
          ELSE JsImportChildren(tree, content, kids, k + 1, module, items)

\* the string arguments of an arguments node: the last one is kept
RECURSIVE JsStringArg(_, _, _, _, _)
JsStringArg(tree, content, args, a, module) ==
  IF a > Len(args) THEN module
  ELSE JsStringArg(tree, content, args, a + 1,
         IF tree[args[a]].type = "string"
         THEN StripQuotes(NodeText(content, tree[args[a]])) ELSE module)

\* the loop over the children of a call_expression node: <<func_name, module>>
RECURSIVE JsCallChildren(_, _, _, _, _, _)
JsCallChildren(tree, content, kids, k, func_name, module) ==
  IF k > Len(kids) THEN <<func_name, module>>
  ELSE LET child == tree[kids[k]]
       IN IF child.type = "identifier"
          THEN JsCallChildren(tree, content, kids, k + 1,
                              NodeText(content, child), module)
          ELSE IF child.type = "arguments"
          THEN JsCallChildren(tree, content, kids, k + 1, func_name,
                              JsStringArg(tree, content, child.children, 1, module))
          ELSE JsCallChildren(tree, content, kids, k + 1, func_name, module)

\* extract_javascript_imports: traverse(node) in pre-order
RECURSIVE extract_javascript_imports(_, _, _)
RECURSIVE jsImportsOfChildren(_, _, _, _)
extract_javascript_imports(tree, content, n) ==
  (IF tree[n].type = "import_statement"
   THEN LET mi == JsImportChildren(tree, content, tree[n].children, 1, << >>, << >>)
        IN IF mi[1] # << >> THEN << Import("import", mi[1], mi[2]) >> ELSE << >>
   ELSE IF tree[n].type = "call_expression"
   THEN LET fm == JsCallChildren(tree, content, tree[n].children, 1, << >>, << >>)
        IN IF fm[1] = <<"r", "e", "q", "u", "i", "r", "e">> /\ fm[2] # << >>
           THEN << Import("require", fm[2], << >>) >> ELSE << >>
   ELSE << >>)
  \o jsImportsOfChildren(tree, content, tree[n].children, 1)

jsImportsOfChildren(tree, content, kids, k) ==
  IF k > Len(kids) THEN << >>
  ELSE extract_javascript_imports(tree, content, kids[k])
       \o jsImportsOfChildren(tree, content, kids, k + 1)

\* s.replace(sub, ''): s without the occurrences of sub, found left to right
RECURSIVE Remove(_, _)
Remove(s, sub) ==
  IF Len(s) < Len(sub) THEN s
  ELSE IF SubSeq(s, 1, Len(sub)) = sub
  THEN Remove(SubSeq(s, Len(sub) + 1, Len(s)), sub)
  ELSE <<s[1]>> \o Remove(Tail(s), sub)

\* s.strip(): s without leading and trailing white space
Blank == {" ", "\n", "\t", "\r"}
Strip(s) ==
  LET keep == {i \in 1..Len(s) : s[i] \notin Blank}
      lo == IF keep = {} THEN 1 ELSE CHOOSE i \in keep : \A k \in keep : i <= k
      hi == IF keep = {} THEN 0 ELSE CHOOSE i \in keep : \A k \in keep : k <= i
  IN SubSeq(s, lo, hi)

\* extract_java_imports: traverse(node) in pre-order
RECURSIVE extract_java_imports(_, _, _)
RECURSIVE javaImportsOfChildren(_, _, _, _)
extract_java_imports(tree, content, n) ==
  (IF tree[n].type = "import_declaration"
   THEN << Import("import",
                  Strip(Remove(Remove(NodeText(content, tree[n]),
                                      <<"i", "m", "p", "o", "r", "t">>), <<";">>)),
                  << >>) >>
   ELSE << >>)
  \o javaImportsOfChildren(tree, content, tree[n].children, 1)

javaImportsOfChildren(tree, content, kids, k) ==
  IF k > Len(kids) THEN << >>
  ELSE extract_java_imports(tree, content, kids[k])
       \o javaImportsOfChildren(tree, content, kids, k + 1)

\* lines 249-256 of build_dependency_graph: the extractor of the extension
ExtractImports(ext, tree, content) ==
  IF ext = <<".", "p", "y">> THEN extract_python_imports(tree, content, 1)
  ELSE IF ext \in { <<".", "j", "s">>, <<".", "t", "s">> }
  THEN extract_javascript_imports(tree, content, 1)
  ELSE IF ext = <<".", "j", "a", "v", "a">> THEN extract_java_imports(tree, content, 1)
  ELSE << >>

\* extract_functions_and_classes: traverse(node) in pre-order; a definition
\* without a name is not recorded
RECURSIVE extract_functions_and_classes(_, _, _)
RECURSIVE entitiesOfChildren(_, _, _, _)
extract_functions_and_classes(tree, content, n) ==
  LET fname == FirstChildText(tree, content, tree[n].children, 1,
                              {"identifier", "property_identifier"})
      cname == FirstChildText(tree, content, tree[n].children, 1, {"identifier"})
      below == entitiesOfChildren(tree, content, tree[n].children, 1)
      here == IF tree[n].type \in FUNCTION_NODE_TYPES
              THEN [functions |-> IF fname # << >> THEN <<fname>> ELSE << >>,
                    classes |-> << >>]
              ELSE IF tree[n].type \in {"class_definition", "class_declaration"}
              THEN [functions |-> << >>,
                    classes |-> IF cname # << >> THEN <<cname>> ELSE << >>]
              ELSE [functions |-> << >>, classes |-> << >>]
  IN [functions |-> here.functions \o below.functions,
      classes |-> here.classes \o below.classes]

entitiesOfChildren(tree, content, kids, k) ==
  IF k > Len(kids) THEN [functions |-> << >>, classes |-> << >>]
  ELSE LET first == extract_functions_and_classes(tree, content, kids[k])
           rest == entitiesOfChildren(tree, content, kids, k + 1)
       IN [functions |-> first.functions \o rest.functions,
           classes |-> first.classes \o rest.classes]

-----------------------------------------------------------------------------
(* The networkx DiGraph: order is the nodes in insertion order, attr the   *)
(* attribute dictionary of each node, edges the edges in insertion order,  *)
(* at most one per pair (u, v), each with its attribute dictionary.        *)

NodesOf(g) == {g.order[i] : i \in 1..Len(g.order)}
has_node(g, n) == n \in NodesOf(g)
EdgeIndex(g, u, v) == {i \in 1..Len(g.edges) : g.edges[i].u = u /\ g.edges[i].v = v}
has_edge(g, u, v) == EdgeIndex(g, u, v) # {}

\* G.add_node(n, **attrs): a node already there keeps its place and has its
\* attributes updated
add_node(g, n, attrs) ==
  IF has_node(g, n)
  THEN [g EXCEPT !.attr = (n :> (attrs @@ g.attr[n])) @@ g.attr]
  ELSE [g EXCEPT !.order = Append(g.order, n), !.attr = (n :> attrs) @@ g.attr]

\* add_edge of a multigraph: every call adds an edge
add_edge_multi(g, u, v, data) ==
  LET g1 == IF has_node(g, u) THEN g ELSE add_node(g, u, << >>)
      g2 == IF has_node(g1, v) THEN g1 ELSE add_node(g1, v, << >>)
  IN [g2 EXCEPT !.edges = Append(g2.edges, [u |-> u, v |-> v, data |-> data])]

\* G.add_edge(u, v, **data): the end points are added if missing; an edge
\* already there has its attributes updated
add_edge(g, u, v, data) ==
  LET g1 == IF has_node(g, u) THEN g ELSE add_node(g, u, << >>)
      g2 == IF has_node(g1, v) THEN g1 ELSE add_node(g1, v, << >>)
  IN IF has_edge(g2, u, v)
     THEN LET i == CHOOSE i \in EdgeIndex(g2, u, v) : TRUE
          IN [g2 EXCEPT !.edges[i].data = data @@ g2.edges[i].data]
     ELSE [g2 EXCEPT !.edges = Append(g2.edges, [u |-> u, v |-> v, data |-> data])]

\* remove_nodes_from that takes the nodes at the other end of an edge along
RemoveWithNeighbours(g, nodes) ==
  LET gone == nodes \cup {g.edges[i].u : i \in {k \in 1..Len(g.edges) : g.edges[k].v \in nodes}}
  IN [order |-> SelectSeq(g.order, LAMBDA n : n \notin gone),
      attr |-> [n \in (DOMAIN g.attr) \ gone |-> g.attr[n]],
      edges |-> SelectSeq(g.edges, LAMBDA e : e.u \notin gone /\ e.v \notin gone)]

\* G.remove_nodes_from(nodes): the nodes go, and every edge at one of them
remove_nodes_from(g, nodes) ==
  [order |-> SelectSeq(g.order, LAMBDA n : n \notin nodes),
   attr |-> [n \in (DOMAIN g.attr) \ nodes |-> g.attr[n]],
   edges |-> SelectSeq(g.edges, LAMBDA e : e.u \notin nodes /\ e.v \notin nodes)]

in_degree(g, n) == Cardinality({i \in 1..Len(g.edges) : g.edges[i].v = n})
out_degree(g, n) == Cardinality({i \in 1..Len(g.edges) : g.edges[i].u = n})

\* G.nodes[n].get('type')
TypeOf(g, n) == IF "type" \in DOMAIN g.attr[n] THEN g.attr[n]["type"] ELSE "None"

\* [node for node in G.nodes() if G.nodes[node].get('type') == t]
NodesOfType(g, t) == SelectSeq(g.order, LAMBDA n : TypeOf(g, n) = t)

\* the successors of u, in the order their edges were added
Successors(g, u) ==
  LET out == SelectSeq(g.edges, LAMBDA e : e.u = u)
  IN [i \in 1..Len(out) |-> out[i].v]

IndexOf(seq, x) == CHOOSE i \in 1..Len(seq) : seq[i] = x
InSeq(seq, x) == \E i \in 1..Len(seq) : seq[i] = x

\* nx.simple_cycles(G): every elementary cycle once, self-loops included.
\* Each cycle is listed from its first node in node order, cycles of an
\* earlier first node first.
RECURSIVE CyclesFrom(_, _, _)
RECURSIVE cyclesVia(_, _, _, _, _)
CyclesFrom(g, start, path) ==
  cyclesVia(g, start, path, Successors(g, path[Len(path)]), 1)

cyclesVia(g, start, path, succ, k) ==
  IF k > Len(succ) THEN << >>
  ELSE (IF succ[k] = start THEN <<path>>
        ELSE IF ~InSeq(path, succ[k])
                /\ IndexOf(g.order, succ[k]) > IndexOf(g.order, start)
        THEN CyclesFrom(g, start, Append(path, succ[k]))
        ELSE << >>)
       \o cyclesVia(g, start, path, succ, k + 1)

RECURSIVE cyclesOfNodes(_, _)
cyclesOfNodes(g, i) ==
  IF i > Len(g.order) THEN << >>
  ELSE CyclesFrom(g, g.order[i], <<g.order[i]>>) \o cyclesOfNodes(g, i + 1)

\* simple_cycles with the direction of the edges ignored
SimpleCyclesUndirected(g) ==
  cyclesOfNodes([g EXCEPT !.edges =
                   g.edges \o [i \in 1..Len(g.edges) |->
                                 [u |-> g.edges[i].v, v |-> g.edges[i].u,
                                  data |-> g.edges[i].data]]], 1)

simple_cycles(g) == cyclesOfNodes(g, 1)

Dcolon == <<":", ":">>
ExternalPrefix == <<"e", "x", "t", "e", "r", "n", "a", "l", ":", ":">>

-----------------------------------------------------------------------------
(* build_dependency_graph                                                  *)

\* AddEntities with the defines edges from the definition to the file
RECURSIVE AddEntitiesEdgeReversed(_, _, _, _, _)
AddEntitiesEdgeReversed(g, rel_path, names, k, kind) ==
  IF k > Len(names) THEN g
  ELSE LET node_id == rel_path \o Dcolon \o names[k]
           g1 == add_node(g, node_id,
                          [type |-> kind, name |-> names[k], file |-> rel_path])
           g2 == add_edge(g1, node_id, rel_path, [relationship |-> "defines"])
       IN AddEntitiesEdgeReversed(g2, rel_path, names, k + 1, kind)

\* lines 270-279: the nodes and defines edges of the definitions of a file
RECURSIVE AddEntities(_, _, _, _, _)
AddEntities(g, rel_path, names, k, kind) ==
  IF k > Len(names) THEN g
  ELSE LET node_id == rel_path \o Dcolon \o names[k]
           g1 == add_node(g, node_id,
                          [type |-> kind, name |-> names[k], file |-> rel_path])
           g2 == add_edge(g1, rel_path, node_id, [relationship |-> "defines"])
       IN AddEntities(g2, rel_path, names, k + 1, kind)

\* what the try block of pass 1 does with a file: "ok", or "error" when
\* reading, parsing or extracting raises
DepOutcomes == {"ok", "error"}

\* AfterFile with the file node added before the file is read: a file that
\* fails stays in the graph.
AfterFileNodeFirst(g, fd, f, ext, outcome) ==
  LET g0 == add_node(g, f.path, [type |-> "file", language |-> ext])
  IN IF outcome = "error" THEN <<g0, fd>>
     ELSE LET imports == ExtractImports(ext, TreeOf(f), ContentOf(f))
              entities == extract_functions_and_classes(TreeOf(f), ContentOf(f), 1)
              g1 == AddEntities(g0, f.path, entities.functions, 1, "function")
              g2 == AddEntities(g1, f.path, entities.classes, 1, "class")
          IN << g2,
                [keys |-> IF InSeq(fd.keys, f.path) THEN fd.keys
                          ELSE Append(fd.keys, f.path),
                 val |-> (f.path :> [imports |-> imports,
                                     functions |-> entities.functions,
                                     classes |-> entities.classes]) @@ fd.val] >>

\* Lines 242-282: <<G, file_data>> after the try block on file f.  Whatever
\* raises does so before line 262, the first line that changes G or
\* file_data.
AfterFile(g, fd, f, ext, outcome) ==
  IF outcome = "error" THEN <<g, fd>>
  ELSE LET imports == ExtractImports(ext, TreeOf(f), ContentOf(f))
           entities == extract_functions_and_classes(TreeOf(f), ContentOf(f), 1)
           g0 == add_node(g, f.path, [type |-> "file", language |-> ext])
           g1 == AddEntities(g0, f.path, entities.functions, 1, "function")
           g2 == AddEntities(g1, f.path, entities.classes, 1, "class")
       IN << g2,
             [keys |-> IF InSeq(fd.keys, f.path) THEN fd.keys
                       ELSE Append(fd.keys, f.path),
              val |-> (f.path :> [imports |-> imports,
                                  functions |-> entities.functions,
                                  classes |-> entities.classes]) @@ fd.val] >>

\* Pass 1, the body of the file loop for repo[dep_i].
Pass1File ==
  /\ dep_pc = "pass1"
  /\ dep_i <= Len(repo)
  /\ LET f == repo[dep_i]
         ext == Splitext(f.path)[2]
     IN IF ext \notin SourceExts \/ get_parser_and_language(ext) = "none"
        THEN /\ dep_log' = Append(dep_log, "skipped")
             /\ UNCHANGED <<G, file_data>>
        ELSE \E outcome \in DepOutcomes :
               /\ dep_log' = Append(dep_log, outcome)
               /\ G' = AfterFile(G, file_data, f, ext, outcome)[1]
               /\ file_data' = AfterFile(G, file_data, f, ext, outcome)[2]
  /\ dep_i' = dep_i + 1
  /\ UNCHANGED <<repo, earlier, graph_json, jobVars, cxVars, dep_pc, dep_j, report>>

\* the (file, import) pair pass 2 handles next, from <<i, j>> on: the first
\* file from i on that has a j-th import; past the last file if none has
RECURSIVE Cursor(_, _, _)
Cursor(fd, i, j) ==
  IF i > Len(fd.keys) THEN <<i, 1>>
  ELSE IF j <= Len(fd.val[fd.keys[i]].imports) THEN <<i, j>>
  ELSE Cursor(fd, i + 1, 1)

\* the end of the walk of pass 1: pass 2 starts at the first import
EndPass1 ==
  /\ dep_pc = "pass1"
  /\ dep_i > Len(repo)
  /\ dep_pc' = "pass2"
  /\ dep_i' = Cursor(file_data, 1, 1)[1]
  /\ dep_j' = Cursor(file_data, 1, 1)[2]
  /\ UNCHANGED <<repo, earlier, graph_json, jobVars, cxVars, G, file_data, dep_log, report>>

\* line 292-293: the test that makes potential_file the target of module
Matches(module, potential_file) ==
  \/ Contains(ReplaceChar(module, ".", "/"), potential_file)
  \/ Contains(SplitLast(module, "."), potential_file)

\* FirstMatch that goes on to the last matching file
RECURSIVE LastMatch(_, _, _)
LastMatch(module, keys, k) ==
  IF k > Len(keys) THEN 0
  ELSE LET later == LastMatch(module, keys, k + 1)
       IN IF later > 0 THEN later
          ELSE IF Matches(module, keys[k]) THEN k ELSE 0

\* lines 290-301: the first matching file in the order of file_data.keys(),
\* the external node if there is none
RECURSIVE FirstMatch(_, _, _)
FirstMatch(module, keys, k) ==
  IF k > Len(keys) THEN 0
  ELSE IF Matches(module, keys[k]) THEN k
  ELSE FirstMatch(module, keys, k + 1)

\* ResolveInto with an external node of its own for every importing file
ResolveIntoPerFile(g, file_path, module, keys) ==
  LET k == FirstMatch(module, keys, 1)
      ext_node == ExternalPrefix \o file_path \o Dcolon \o module
  IN IF k > 0
     THEN add_edge(g, file_path, keys[k],
                   [relationship |-> "imports", module |-> module])
     ELSE add_edge(add_node(g, ext_node, [type |-> "external", module |-> module]),
                   file_path, ext_node,
                   [relationship |-> "imports", module |-> module])

ResolveInto(g, file_path, module, keys) ==
  LET k == FirstMatch(module, keys, 1)
      ext_node == ExternalPrefix \o module
  IN IF k > 0
     THEN add_edge(g, file_path, keys[k],
                   [relationship |-> "imports", module |-> module])
     ELSE add_edge(IF has_node(g, ext_node) THEN g
                   ELSE add_node(g, ext_node, [type |-> "external", module |-> module]),
                   file_path, ext_node,
                   [relationship |-> "imports", module |-> module])

\* Pass2Import that knows only the files enumerated up to the importing one
Pass2ImportAmongEarlier ==
  /\ dep_pc = "pass2"
  /\ dep_i <= Len(file_data.keys)
  /\ LET file_path == file_data.keys[dep_i]
         module == file_data.val[file_path].imports[dep_j].module
         next == Cursor(file_data, dep_i, dep_j + 1)
     IN /\ G' = ResolveInto(G, file_path, module, SubSeq(file_data.keys, 1, dep_i))
        /\ dep_i' = next[1]
        /\ dep_j' = next[2]
  /\ UNCHANGED <<repo, earlier, graph_json, jobVars, cxVars, dep_pc, file_data, dep_log, report>>

\* Pass 2, the body of the import loop for import dep_j of file dep_i.
Pass2Import ==
  /\ dep_pc = "pass2"
  /\ dep_i <= Len(file_data.keys)
  /\ LET file_path == file_data.keys[dep_i]
         module == file_data.val[file_path].imports[dep_j].module
         next == Cursor(file_data, dep_i, dep_j + 1)
     IN /\ G' = ResolveInto(G, file_path, module, file_data.keys)
        /\ dep_i' = next[1]
        /\ dep_j' = next[2]
  /\ UNCHANGED <<repo, earlier, graph_json, jobVars, cxVars, dep_pc, file_data, dep_log, report>>

\* build_dependency_graph returns G and file_data.
ReturnGraph ==
  /\ dep_pc = "pass2"
  /\ dep_i > Len(file_data.keys)
  /\ dep_pc' = "built"
  /\ UNCHANGED <<repo, earlier, graph_json, jobVars, cxVars, dep_i, dep_j, G, file_data, dep_log, report>>

-----------------------------------------------------------------------------
(* analyze_dependencies, after its call of build_dependency_graph          *)

\* the length of circular_dependency_chains at most
MaxChains == 10

\* [cycle for cycle in cycles if all(type == 'file' for node in cycle)]
FileCycles(g) ==
  SelectSeq(simple_cycles(g),
            LAMBDA cycle : \A i \in 1..Len(cycle) : TypeOf(g, cycle[i]) = "file")

\* sorted(degrees.items(), key=lambda x: x[1], reverse=True) sorting the wrong
\* way round among equals: the later of two nodes of one degree comes first
RECURSIVE SortedDescLaterFirst(_, _)
SortedDescLaterFirst(nodes, deg) ==
  IF nodes = << >> THEN << >>
  ELSE LET rest == SortedDescLaterFirst(Tail(nodes), deg)
           x == Head(nodes)
           before == SelectSeq(rest, LAMBDA n : deg[n] >= deg[x])
           after == SelectSeq(rest, LAMBDA n : deg[n] < deg[x])
       IN before \o <<x>> \o after

\* sorted(degrees.items(), key=lambda x: x[1], reverse=True): the keys of the
\* dictionary deg, given in its order, by falling degree; sorted is stable, and with reverse=True it still leaves
\* equal elements in their original order
RECURSIVE SortedDesc(_, _)
SortedDesc(nodes, deg) ==
  IF nodes = << >> THEN << >>
  ELSE LET rest == SortedDesc(Tail(nodes), deg)
           x == Head(nodes)
           before == SelectSeq(rest, LAMBDA n : deg[n] > deg[x])
           after == SelectSeq(rest, LAMBDA n : deg[n] <= deg[x])
       IN before \o <<x>> \o after

\* the length of most_dependent_files and most_depended_on_files at most
TopN == 5

\* lines 326-337 and 360: [{"file": f, "dependencies": d} for f, d in
\* sorted(out_degrees.items(), ...)[:5]]
most_dependent(g) ==
  LET file_nodes == NodesOfType(g, "file")
      out_degrees == [n \in {file_nodes[i] : i \in 1..Len(file_nodes)} |-> out_degree(g, n)]
      top == SortedDesc(file_nodes, out_degrees)
  IN [i \in 1..Min(TopN, Len(top)) |->
        [file |-> top[i], dependencies |-> out_degrees[top[i]]]]

\* lines 326-337 and 361: the same by in-degree
most_depended_on(g) ==
  LET file_nodes == NodesOfType(g, "file")
      in_degrees == [n \in {file_nodes[i] : i \in 1..Len(file_nodes)} |-> in_degree(g, n)]
      top == SortedDesc(file_nodes, in_degrees)
  IN [i \in 1..Min(TopN, Len(top)) |->
        [file |-> top[i], dependents |-> in_degrees[top[i]]]]

\* round(num / den, d) cut off instead of rounded
RoundedDown(num, den, scale) == (num * scale) \div den

\* round(num / den, d) as an integer count of 10^-d, scale = 10^d: the
\* nearest count, and of two equally near ones the even one
RoundScaled(num, den, scale) ==
  LET q == (num * scale) \div den
      r == (num * scale) % den
  IN IF 2 * r < den THEN q
     ELSE IF 2 * r > den THEN q + 1
     ELSE IF q % 2 = 0 THEN q ELSE q + 1

\* round(avg_degree, 2): two decimals
Hundred == 100
\* round(nx.density(G), 4): four decimals
TenThousand == 10000

\* sum(dict(G.degree()).values()): each edge counts at both its ends
TotalDegree(g) == 2 * Len(g.edges)

\* lines 347-351 and 359: round(avg_degree, 2), in hundredths
average_connections_per_node(g) ==
  IF Len(g.order) = 0 THEN 0
  ELSE RoundScaled(TotalDegree(g), Len(g.order), Hundred)

\* nx.density(G) of a DiGraph: 0 without edges or with at most one node,
\* m / (n * (n - 1)) otherwise
density(g) ==
  LET n == Len(g.order)
      m == Len(g.edges)
  IN IF m = 0 \/ n <= 1 THEN [num |-> 0, den |-> 1]
     ELSE [num |-> m, den |-> n * (n - 1)]

\* line 364: round(nx.density(G), 4) if G.nodes() else 0, in ten-thousandths
graph_density(g) ==
  IF Len(g.order) = 0 THEN 0
  ELSE RoundScaled(density(g).num, density(g).den, TenThousand)

\* Metrics with the count taken of the capped list
MetricsCountOfCapped(g, total_external) ==
  LET file_cycles == FileCycles(g)
      chains == SubSeq(file_cycles, 1, Min(MaxChains, Len(file_cycles)))
  IN [total_files |-> Len(NodesOfType(g, "file")),
      total_functions |-> Len(NodesOfType(g, "function")),
      total_classes |-> Len(NodesOfType(g, "class")),
      total_external_dependencies |-> total_external,
      total_edges |-> Len(g.edges),
      average_connections_per_node |-> average_connections_per_node(g),
      most_dependent_files |-> most_dependent(g),
      most_depended_on_files |-> most_depended_on(g),
      circular_dependencies |-> Len(chains),
      circular_dependency_chains |-> chains,
      graph_density |-> graph_density(g)]

\* lines 321-365: the dictionary analyze_dependencies returns on g.  The two
\* rounded numbers are integers here: average_connections_per_node counts
\* hundredths, graph_density ten-thousandths.
Metrics(g, total_external) ==
  LET file_cycles == FileCycles(g)
  IN [total_files |-> Len(NodesOfType(g, "file")),
      total_functions |-> Len(NodesOfType(g, "function")),
      total_classes |-> Len(NodesOfType(g, "class")),
      total_external_dependencies |-> total_external,
      total_edges |-> Len(g.edges),
      average_connections_per_node |-> average_connections_per_node(g),
      most_dependent_files |-> most_dependent(g),
      most_depended_on_files |-> most_depended_on(g),
      circular_dependencies |-> Len(file_cycles),
      circular_dependency_chains |-> SubSeq(file_cycles, 1, Min(MaxChains, Len(file_cycles))),
      graph_density |-> graph_density(g)]

\* analyze_dependencies that still reports the external nodes it removed
AnalyzeDependenciesCountsRemoved ==
  /\ dep_pc = "built"
  /\ \E exclude_third_party \in BOOLEAN :
       LET external_nodes == NodesOfType(G, "external")
           g == IF exclude_third_party
                THEN remove_nodes_from(G, {external_nodes[i] : i \in 1..Len(external_nodes)})
                ELSE G
       IN /\ G' = g
          /\ report' = Metrics(g, Len(external_nodes))
  /\ dep_pc' = "done"
  /\ UNCHANGED <<repo, earlier, graph_json, jobVars, cxVars, dep_i, dep_j, file_data, dep_log>>

AnalyzeDependencies ==
  /\ dep_pc = "built"
  /\ \E exclude_third_party \in BOOLEAN :
       LET external_nodes == NodesOfType(G, "external")
           g == IF exclude_third_party
                THEN remove_nodes_from(G, {external_nodes[i] : i \in 1..Len(external_nodes)})
                ELSE G
           total_external == IF exclude_third_party THEN 0 ELSE Len(external_nodes)
       IN /\ G' = g
          /\ report' = Metrics(g, total_external)
  /\ dep_pc' = "done"
  /\ UNCHANGED <<repo, earlier, graph_json, jobVars, cxVars, dep_i, dep_j, file_data, dep_log>>


-----------------------------------------------------------------------------
(* export_graph_data: the node-link form of the graph                      *)

\* {k: v for k, v in d.items() if k not in keys}
Without(d, keys) == [k \in (DOMAIN d) \ keys |-> d[k]]

\* node_link_data that writes the identifiers of the nodes and nothing else
NodeLinkDataIdsOnly(g) ==
  [directed |-> TRUE,
   multigraph |-> FALSE,
   nodes |-> [i \in 1..Len(g.order) |-> ("id" :> g.order[i])],
   links |-> [i \in 1..Len(g.edges) |->
                ("source" :> g.edges[i].u) @@ ("target" :> g.edges[i].v)
                  @@ g.edges[i].data]]

\* json_graph.node_link_data(G) of a DiGraph: one dictionary per node, its
\* attributes and its identifier under "id"; one dictionary per edge, its
\* attributes and its end points under "source" and "target"
node_link_data(g) ==
  [directed |-> TRUE,
   multigraph |-> FALSE,
   nodes |-> [i \in 1..Len(g.order) |->
                ("id" :> g.order[i]) @@ g.attr[g.order[i]]],
   links |-> [i \in 1..Len(g.edges) |->
                ("source" :> g.edges[i].u) @@ ("target" :> g.edges[i].v)
                  @@ g.edges[i].data]]

\* the elements of seq in the order of their first occurrence
FirstOccurrences(seq) ==
  LET firsts == {i \in 1..Len(seq) : \A j \in 1..(i - 1) : seq[j] # seq[i]}
  IN [k \in 1..Cardinality(firsts) |->
        seq[CHOOSE i \in firsts : Cardinality({j \in firsts : j <= i}) = k]]

\* the dictionaries dicts[i], i in at, merged into one, a later one
\* overriding an earlier one
Merged(dicts, at) ==
  LET keys == UNION {DOMAIN dicts[i] : i \in at}
  IN [key \in keys |->
        LET has == {i \in at : key \in DOMAIN dicts[i]}
        IN dicts[CHOOSE i \in has : \A j \in has : j <= i][key]]

\* json_graph.node_link_graph(data): a DiGraph, as the flags say, with
\* add_node(d["id"], **rest) for every entry of nodes, then
\* add_edge(d["source"], d["target"], **rest) for every entry of links.  A
\* node or an edge named again keeps its place and has its attributes
\* updated; an end point that is no node yet becomes one.
node_link_graph(data) ==
  LET nodes == data.nodes
      links == data.links
      ids == [i \in 1..Len(nodes) |-> nodes[i]["id"]]
      ends == [i \in 1..(2 * Len(links)) |->
                 IF i % 2 = 1 THEN links[(i + 1) \div 2]["source"]
                 ELSE links[i \div 2]["target"]]
      order == FirstOccurrences(ids \o ends)
      pairs == FirstOccurrences([i \in 1..Len(links) |->
                                   <<links[i]["source"], links[i]["target"]>>])
      rest == [i \in 1..Len(links) |-> Without(links[i], {"source", "target"})]
  IN [order |-> order,
      attr |-> [n \in {order[i] : i \in 1..Len(order)} |->
                  Without(Merged(nodes, {i \in 1..Len(nodes) : nodes[i]["id"] = n}),
                          {"id"})],
      edges |-> [k \in 1..Len(pairs) |->
                   [u |-> pairs[k][1], v |-> pairs[k][2],
                    data |-> Merged(rest, {i \in 1..Len(links) :
                                             /\ links[i]["source"] = pairs[k][1]
                                             /\ links[i]["target"] = pairs[k][2]})]]]

\* export_graph_data(tmpdir, 'json', exclude_third_party), called by
\* run_full_analysis right after analyze_dependencies with the same flag on
\* the same files: its graph is the graph the metrics were computed on.
ExportGraphData ==
  /\ dep_pc = "done"
  /\ graph_json' = node_link_data(G)
  /\ dep_pc' = "exported"
  /\ UNCHANGED <<repo, earlier, jobVars, cxVars, dep_i, dep_j, G, file_data, dep_log, report>>
-----------------------------------------------------------------------------
(* analyze_dependencies on a repository                                    *)

DepCatalogue ==
  { File(A_py, "ImportB"), File(A_py, "Empty"), File(A_py, "ImportPkgB"),
    File(B_py, "ImportA"), File(B_py, "Empty"),
    File(X_py, "ImportNumpy"), File(X_py, "ImportOs"),
    File(Y_py, "TwoFuncsF"),
    File(C_py, "FuncAndClassF"), File(D_py, "ClassC"),
    File(Host_py, "Empty"), File(Pkg_b_py, "ImportA"),
    File(Readme_md, "Empty") }

\* four files that import one another: every pair of them lies on a cycle
FourCycleRepo ==
  << File(A_py, "ImportsBCD"), File(B_py, "ImportsACD"),
     File(C_py, "ImportsABD"), File(D_py, "ImportsABC") >>

\* six files of out-degree 3, 1, 1, 0, 1, 3 (two defines edges among them)
\* and in-degree 3, 1, 1, 1, 0, 0
SixFileRepo ==
  << File(A_py, "ImportsBCD"), File(B_py, "ImportA"), File(C_py, "ImportA"),
     File(D_py, "Empty"), File(X_py, "ImportNumpy"), File(Y_py, "ClassC") >>

\* repositories of the scenarios
ScenarioRepos ==
  { FourCycleRepo, SixFileRepo,
    << File(Pkg_a_py, "FromDotBImportX"), File(Pkg_b_py, "Empty") >>,
    << File(A_py, "FromBImportX"), File(B_py, "Empty") >>,
    << File(A_py, "FromBImportXY"), File(B_py, "Empty") >>,
    << File(A_py, "ImportBTwice"), File(B_py, "Empty") >>,
    << File(A_py, "ImportA") >>,
    << File(A_py, "ImportB"), File(Pkg_b_py, "Empty"), File(B_py, "Empty") >>,
    << File(B_py, "Empty"), File(Pkg_b_py, "Empty"), File(A_py, "ImportB") >>,
    << File(G_js, "JsFuncs"), File(W_ts, "Arrow0") >> }

DepRepos ==
  {r \in ReposOf(DepCatalogue, MaxFiles) : DistinctPaths(r)} \cup ScenarioRepos

InitDep ==
  /\ repo \in DepRepos
  /\ CxIdle
  /\ dep_pc = "pass1"
  /\ dep_i = 1
  /\ dep_j = 1
  /\ G = EmptyGraph
  /\ file_data = [keys |-> << >>, val |-> << >>]
  /\ dep_log = << >>
  /\ report = << >>
  /\ earlier = << >>
  /\ graph_json = << >>
  /\ JobIdle

NextDep ==
  \/ Pass1File
  \/ EndPass1
  \/ Pass2Import
  \/ ReturnGraph
  \/ AnalyzeDependencies
  \/ ExportGraphData

SpecDep == InitDep /\ [][NextDep]_vars

\* run_full_analysis (backend/tasks.py) computes the code metrics and then the
\* dependency metrics of the clone.
StartDependencies ==
  /\ cx_pc = "done"
  /\ dep_pc = "idle"
  /\ dep_pc' = "pass1"
  /\ UNCHANGED <<repo, earlier, graph_json, jobVars, cxVars, dep_i, dep_j, G, file_data, dep_log, report>>

Init ==
  /\ repo \in CxRepos \cup {r \in DepRepos : Len(r) <= MaxFiles}
  /\ cx_pc = "walk"
  /\ cx_i = 1
  /\ results = InitResults
  /\ cx_log = << >>
  /\ DepIdle
  /\ earlier = << >>
  /\ graph_json = << >>
  /\ JobIdle

Next ==
  \/ AnalyzeFile
  \/ AnalyzeReturn
  \/ StartDependencies
  \/ Pass1File
  \/ EndPass1
  \/ Pass2Import
  \/ ReturnGraph
  \/ AnalyzeDependencies
  \/ ExportGraphData

Spec == Init /\ [][Next]_vars


-----------------------------------------------------------------------------
(* The two passes over a clone, run a second time on the same files.       *)

\* what a run has returned: the results of analyze_functions, the graph and
\* the file table of build_dependency_graph, and what failed on the way
Returned ==
  [results |-> results, cx_log |-> cx_log,
   G |-> G, file_data |-> file_data, dep_log |-> dep_log]

\* a second run that goes on with the dictionary and the graph of the first
RerunOnUsedState ==
  /\ cx_pc = "done"
  /\ dep_pc = "built"
  /\ earlier = << >>
  /\ graph_json = << >>
  /\ JobIdle
  /\ earlier' = Returned
  /\ cx_pc' = "walk"
  /\ cx_i' = 1
  /\ cx_log' = << >>
  /\ dep_pc' = "idle"
  /\ dep_i' = 1
  /\ dep_j' = 1
  /\ dep_log' = << >>
  /\ UNCHANGED <<repo, results, G, file_data, report, graph_json, jobVars>>

\* analyze_functions and build_dependency_graph are called again: results
\* (analysis.py line 216), G and file_data (dependency_analysis.py lines
\* 217-218) are locals, made anew by every call.
Rerun ==
  /\ cx_pc = "done"
  /\ dep_pc = "built"
  /\ earlier = << >>
  /\ graph_json = << >>
  /\ JobIdle
  /\ earlier' = Returned
  /\ cx_pc' = "walk"
  /\ cx_i' = 1
  /\ results' = InitResults
  /\ cx_log' = << >>
  /\ dep_pc' = "idle"
  /\ dep_i' = 1
  /\ dep_j' = 1
  /\ G' = EmptyGraph
  /\ file_data' = [keys |-> << >>, val |-> << >>]
  /\ dep_log' = << >>
  /\ UNCHANGED <<repo, report, graph_json, jobVars>>

TwiceRepos ==
  { << File(A_py, "PyFuncs"), File(G_js, "JsFuncs") >>,
    << File(A_py, "ImportB"), File(B_py, "ImportA") >>,
    << File(X_py, "ImportNumpy"), File(Y_py, "TwoFuncsF") >>,
    << File(C_py, "FuncAndClassF") >> }

InitTwice ==
  /\ repo \in TwiceRepos
  /\ cx_pc = "walk"
  /\ cx_i = 1
  /\ results = InitResults
  /\ cx_log = << >>
  /\ DepIdle
  /\ earlier = << >>
  /\ graph_json = << >>
  /\ JobIdle

NextTwice ==
  \/ AnalyzeFile
  \/ AnalyzeReturn
  \/ StartDependencies
  \/ Pass1File
  \/ EndPass1
  \/ Pass2Import
  \/ ReturnGraph
  \/ AnalyzeDependencies
  \/ ExportGraphData
  \/ Rerun

SpecTwice == InitTwice /\ [][NextTwice]_vars

-----------------------------------------------------------------------------
(* The analysis job: GET /analyze/full, the Celery task run_full_analysis  *)
(* and the two endpoints that read the job (backend/main.py,               *)
(* backend/tasks.py).  db_job is the committed row; job is the worker      *)
(* session's object, whose changes reach the row at a successful commit    *)
(* and are dropped at a failed one.  Every call that can raise does so or  *)
(* not, by choice of the environment.                                      *)

\* str(e) of whatever an analysis stage or a library call raised
Boom == <<"b", "o", "o", "m">>

\* the messages of run_full_analysis and create_and_save_index
CodeMetricsFailed == <<"C", "o", "d", "e", " ", "m", "e", "t", "r", "i", "c", "s", " ", "f", "a", "i", "l", "e", "d", ":", " ">> \o Boom
DependencyFailed == <<"D", "e", "p", "e", "n", "d", "e", "n", "c", "y", " ", "a", "n", "a", "l", "y", "s", "i", "s", " ", "f", "a", "i", "l", "e", "d", ":", " ">> \o Boom
GraphJsonFailed == <<"G", "r", "a", "p", "h", " ", "J", "S", "O", "N", " ", "g", "e", "n", "e", "r", "a", "t", "i", "o", "n", " ", "f", "a", "i", "l", "e", "d", ":", " ">> \o Boom
DuplicationFailed == <<"D", "u", "p", "l", "i", "c", "a", "t", "i", "o", "n", " ", "a", "n", "a", "l", "y", "s", "i", "s", " ", "f", "a", "i", "l", "e", "d", ":", " ">> \o Boom
ModelLoadFailed == <<"F", "a", "i", "l", "e", "d", " ", "t", "o", " ", "l", "o", "a", "d", " ", "e", "m", "b", "e", "d", "d", "i", "n", "g", " ", "m", "o", "d", "e", "l", ":", " ">> \o Boom
CouldNotRead == <<"C", "o", "u", "l", "d", " ", "n", "o", "t", " ", "r", "e", "a", "d", " ", "a", ".", "p", "y", ":", " ">> \o Boom
EmbeddingFailed == <<"E", "m", "b", "e", "d", "d", "i", "n", "g", " ", "g", "e", "n", "e", "r", "a", "t", "i", "o", "n", " ", "f", "a", "i", "l", "e", "d", ":", " ">> \o Boom
IndexBuildFailed == <<"F", "A", "I", "S", "S", " ", "i", "n", "d", "e", "x", " ", "b", "u", "i", "l", "d", " ", "f", "a", "i", "l", "e", "d", ":", " ">> \o Boom
IndexSaveFailed == <<"F", "a", "i", "l", "e", "d", " ", "t", "o", " ", "s", "a", "v", "e", " ", "i", "n", "d", "e", "x", "/", "m", "a", "p", "p", "i", "n", "g", ":", " ">> \o Boom
JobNotFound == <<"J", "o", "b", " ", "j", " ", "n", "o", "t", " ", "f", "o", "u", "n", "d", " ", "i", "n", " ", "d", "a", "t", "a", "b", "a", "s", "e", ".">>
NoRepositoryUrl == <<"N", "o", " ", "r", "e", "p", "o", "s", "i", "t", "o", "r", "y", " ", "U", "R", "L", " ", "p", "r", "o", "v", "i", "d", "e", "d", " ", "o", "r", " ", "f", "o", "u", "n", "d", " ", "i", "n", " ", "e", "n", "v", "i", "r", "o", "n", "m", "e", "n", "t", " ", "v", "a", "r", "i", "a", "b", "l", "e", "s", ".">>
CloneFailed == <<"F", "a", "i", "l", "e", "d", " ", "t", "o", " ", "c", "l", "o", "n", "e", " ", "r", "e", "p", "o", ":", " ">> \o Boom
\* str(e) of what the database, the file system and the index raise
QueryFailed == <<"q", "u", "e", "r", "y", " ", "f", "a", "i", "l", "e", "d">>
CommitFailed == <<"c", "o", "m", "m", "i", "t", " ", "f", "a", "i", "l", "e", "d">>
MkdtempFailed == <<"m", "k", "d", "t", "e", "m", "p", " ", "f", "a", "i", "l", "e", "d">>
IndexRaised == <<"i", "n", "d", "e", "x", " ", "f", "a", "i", "l", "e", "d">>
SaveFailed == <<"s", "a", "v", "e", " ", "f", "a", "i", "l", "e", "d">>
TaskFailedPrefix == <<"T", "a", "s", "k", " ", "e", "x", "e", "c", "u", "t", "i", "o", "n", " ", "f", "a", "i", "l", "e", "d", ":", " ">>
CloneErrorPrefix == <<"T", "a", "s", "k", " ", "e", "x", "e", "c", "u", "t", "i", "o", "n", " ", "f", "a", "i", "l", "e", "d", ":", " ", "C", "l", "o", "n", "e", " ", "e", "r", "r", "o", "r", " ", "-", " ">>

\* "; ".join(errors)
RECURSIVE Join(_)
Join(errors) ==
  IF Len(errors) = 0 THEN << >>
  ELSE IF Len(errors) = 1 THEN errors[1]
  ELSE errors[1] \o <<";", " ">> \o Join(Tail(errors))

\* s[:1000]
ErrorLimit == 1000
Limited(s) == SubSeq(s, 1, IF Len(s) < ErrorLimit THEN Len(s) ELSE ErrorLimit)

\* s.split(sep, 1)[-1]: what follows the first sep, the whole of s without one
AfterFirst(s, sep) ==
  LET at == {i \in 1..(Len(s) - Len(sep) + 1) : SubSeq(s, i, i + Len(sep) - 1) = sep}
  IN IF at = {} THEN s
     ELSE SubSeq(s, (CHOOSE i \in at : \A k \in at : i <= k) + Len(sep), Len(s))

\* lines 365-371: the error the exception handler stores
HandlerError(e) ==
  LET job_error_msg == TaskFailedPrefix \o e
  IN Limited(IF Contains(<<"F", "a", "i", "l", "e", "d", " ", "t", "o", " ", "c", "l", "o", "n", "e", " ", "r", "e", "p", "o">>, job_error_msg)
             THEN CloneErrorPrefix \o AfterFirst(job_error_msg, <<":", " ">>)
             ELSE job_error_msg)

\* what create_and_save_index returns as its third value
IndexOutcomes == {"ok", "model_load", "embedding", "build", "save"}
IndexErrors(read_error, index) ==
  IF index = "model_load" THEN <<ModelLoadFailed>>
  ELSE (IF read_error THEN <<CouldNotRead>> ELSE << >>)
       \o (CASE index = "embedding" -> <<EmbeddingFailed>>
             [] index = "build" -> <<IndexBuildFailed>>
             [] index = "save" -> <<IndexSaveFailed>>
             [] OTHER -> << >>)

InSeqOf(seq, x) == \E i \in 1..Len(seq) : seq[i] = x

\* line 330
is_critical_index_error(errors) ==
  \E i \in 1..Len(errors) :
    \/ Contains(<<"F", "a", "i", "l", "e", "d", " ", "t", "o", " ", "l", "o", "a", "d", " ", "e", "m", "b", "e", "d", "d", "i", "n", "g", " ", "m", "o", "d", "e", "l">>, errors[i])
    \/ Contains(<<"F", "A", "I", "S", "S", " ", "i", "n", "d", "e", "x", " ", "b", "u", "i", "l", "d", " ", "f", "a", "i", "l", "e", "d">>, errors[i])
    \/ Contains(<<"F", "a", "i", "l", "e", "d", " ", "t", "o", " ", "s", "a", "v", "e", " ", "i", "n", "d", "e", "x", "/", "m", "a", "p", "p", "i", "n", "g">>, errors[i])

\* line 332: not A or (A and not any(e not in index_errors)) and not critical
Completes(errors, index_errs) ==
  \/ Len(errors) = 0
  \/ /\ Len(errors) # 0
     /\ ~\E i \in 1..Len(errors) : ~InSeqOf(index_errs, errors[i])
     /\ ~is_critical_index_error(index_errs)

-----------------------------------------------------------------------------
(* backend/main.py                                                         *)

\* full_analysis_start, lines 172-174: the row is added and committed
ApiCreateJob ==
  /\ api_pc = "idle"
  /\ \E committed \in BOOLEAN :
       IF committed
       THEN /\ db_job' = [status |-> "PENDING", error |-> << >>,
                          report_s3_url |-> "None"]
            /\ api_pc' = "created"
            /\ UNCHANGED response
       ELSE /\ api_pc' = "answered"
            /\ response' = [endpoint |-> "full", code |-> 500, status |-> "None"]
            /\ UNCHANGED db_job
  /\ UNCHANGED <<repo, earlier, graph_json, cxVars, depVars, queue, w_pc, job_id,
                 exc, job, tmpdir, clone_dir, session_open, errors_occurred,
                 index_errors, report_file>>

\* full_analysis_start, lines 175-194: the row is refreshed and the task is
\* sent; if either raises the answer is 500 and nothing is in the queue
ApiDispatch ==
  /\ api_pc = "created"
  /\ \E sent \in BOOLEAN :
       IF sent
       THEN /\ queue' = Append(queue, "job")
            /\ response' = [endpoint |-> "full", code |-> 202, status |-> "None"]
       ELSE /\ response' = [endpoint |-> "full", code |-> 500, status |-> "None"]
            /\ UNCHANGED queue
  /\ api_pc' = "answered"
  /\ UNCHANGED <<repo, earlier, graph_json, cxVars, depVars, db_job, w_pc, job_id,
                 exc, job, tmpdir, clone_dir, session_open, errors_occurred,
                 index_errors, report_file>>

\* get_analysis_status
GetStatus ==
  /\ response' = [endpoint |-> "status",
                  code |-> IF db_job = NoJob THEN 404 ELSE 200,
                  status |-> db_job.status]
  /\ UNCHANGED <<repo, earlier, graph_json, cxVars, depVars, api_pc, queue, db_job,
                 w_pc, job_id, exc, job, tmpdir, clone_dir, session_open,
                 errors_occurred, index_errors, report_file>>

\* get_analysis_results: code 200 is the answer that carries the report
GetResults ==
  /\ response' =
       [endpoint |-> "results",
        code |-> IF db_job = NoJob THEN 404
                 ELSE IF db_job.status \in {"PENDING", "RUNNING"} THEN 400
                 ELSE IF db_job.report_s3_url = "None"
                      THEN (IF db_job.status = "FAILED" THEN 400 ELSE 500)
                 ELSE IF report_file THEN 200 ELSE 404,
        status |-> db_job.status]
  /\ UNCHANGED <<repo, earlier, graph_json, cxVars, depVars, api_pc, queue, db_job,
                 w_pc, job_id, exc, job, tmpdir, clone_dir, session_open,
                 errors_occurred, index_errors, report_file>>

-----------------------------------------------------------------------------
(* backend/tasks.py: run_full_analysis                                     *)

\* the worker takes a message: lines 218-220
WorkerStart ==
  /\ w_pc \in {"idle", "returned"}
  /\ queue # << >>
  /\ job_id' = Head(queue)
  /\ queue' = Tail(queue)
  /\ session_open' = TRUE
  /\ job' = NoJob
  /\ tmpdir' = "None"
  /\ clone_dir' = "absent"
  /\ exc' = << >>
  /\ errors_occurred' = << >>
  /\ index_errors' = << >>
  /\ w_pc' = "get_job"
  /\ UNCHANGED <<repo, earlier, graph_json, cxVars, depVars, api_pc, db_job,
                 response, report_file>>

\* lines 224-226
GetJob ==
  /\ w_pc = "get_job"
  /\ \E answered \in BOOLEAN :
       IF ~answered
       THEN /\ exc' = QueryFailed
            /\ w_pc' = "handler"
            /\ UNCHANGED job
       ELSE IF job_id = "job" /\ db_job # NoJob
       THEN /\ job' = db_job
            /\ w_pc' = "set_running"
            /\ UNCHANGED exc
       ELSE /\ exc' = JobNotFound
            /\ w_pc' = "handler"
            /\ UNCHANGED job
  /\ UNCHANGED <<repo, earlier, graph_json, cxVars, depVars, api_pc, queue, db_job,
                 response, job_id, tmpdir, clone_dir, session_open,
                 errors_occurred, index_errors, report_file>>

\* lines 228-229
SetRunning ==
  /\ w_pc = "set_running"
  /\ \E committed \in BOOLEAN :
       IF committed
       THEN /\ job' = [job EXCEPT !.status = "RUNNING"]
            /\ db_job' = [job EXCEPT !.status = "RUNNING"]
            /\ w_pc' = "clone"
            /\ UNCHANGED exc
       ELSE /\ exc' = CommitFailed
            /\ w_pc' = "handler"
            /\ UNCHANGED <<job, db_job>>
  /\ UNCHANGED <<repo, earlier, graph_json, cxVars, depVars, api_pc, queue,
                 response, job_id, tmpdir, clone_dir, session_open,
                 errors_occurred, index_errors, report_file>>

\* line 233: worker_clone_repo, lines 70-98
CloneOutcomes == {"ok", "no_url", "mkdtemp_error", "clone_error"}
CloneRepo ==
  /\ w_pc = "clone"
  /\ \E outcome \in CloneOutcomes :
       CASE outcome = "ok" ->
              /\ tmpdir' = "tmp"
              /\ clone_dir' = "exists"
              /\ w_pc' = "stages"
              /\ UNCHANGED exc
         [] outcome = "no_url" ->
              /\ exc' = NoRepositoryUrl
              /\ w_pc' = "handler"
              /\ UNCHANGED <<tmpdir, clone_dir>>
         [] outcome = "mkdtemp_error" ->
              /\ exc' = MkdtempFailed
              /\ w_pc' = "handler"
              /\ UNCHANGED <<tmpdir, clone_dir>>
         [] outcome = "clone_error" ->
              /\ clone_dir' = "removed"
              /\ exc' = CloneFailed
              /\ w_pc' = "handler"
              /\ UNCHANGED tmpdir
  /\ UNCHANGED <<repo, earlier, graph_json, cxVars, depVars, api_pc, queue, db_job,
                 response, job_id, job, session_open, errors_occurred,
                 index_errors, report_file>>

\* lines 236-306: the four analysis stages, each in its own try, and the
\* index; an exception the index lets through ends the try block
RunStages ==
  /\ w_pc = "stages"
  /\ \E code_ok \in BOOLEAN, dep \in {"ok", "graph_error", "error"},
        dup_ok \in BOOLEAN, read_error \in BOOLEAN,
        index \in IndexOutcomes \cup {"raises"} :
       LET stage_errors ==
             (IF code_ok THEN << >> ELSE <<CodeMetricsFailed>>)
             \o (CASE dep = "ok" -> << >>
                   [] dep = "graph_error" -> <<GraphJsonFailed>>
                   [] dep = "error" -> <<DependencyFailed>>)
             \o (IF dup_ok THEN << >> ELSE <<DuplicationFailed>>)
       IN IF index = "raises"
          THEN /\ errors_occurred' = stage_errors
               /\ index_errors' = << >>
               /\ exc' = IndexRaised
               /\ w_pc' = "handler"
          ELSE /\ errors_occurred' = stage_errors \o IndexErrors(read_error, index)
               /\ index_errors' = IndexErrors(read_error, index)
               /\ w_pc' = "save"
               /\ UNCHANGED exc
  /\ UNCHANGED <<repo, earlier, graph_json, cxVars, depVars, api_pc, queue, db_job,
                 response, job_id, job, tmpdir, clone_dir, session_open,
                 report_file>>

\* lines 309-325: the report is assembled and written
SaveReport ==
  /\ w_pc = "save"
  /\ \E written \in BOOLEAN :
       IF written
       THEN /\ report_file' = TRUE
            /\ w_pc' = "update"
            /\ UNCHANGED exc
       ELSE /\ exc' = SaveFailed
            /\ w_pc' = "handler"
            /\ UNCHANGED report_file
  /\ UNCHANGED <<repo, earlier, graph_json, cxVars, depVars, api_pc, queue, db_job,
                 response, job_id, job, tmpdir, clone_dir, session_open,
                 errors_occurred, index_errors>>

\* the job object after lines 330-345
Updated(j, errors, index_errs) ==
  [status |-> IF Completes(errors, index_errs) THEN "COMPLETED" ELSE "FAILED",
   error |-> IF Len(errors) = 0 THEN j.error ELSE Limited(Join(errors)),
   report_s3_url |-> "report"]

\* UpdateJob that commits the status without the report path
UpdateJobWithoutPath ==
  /\ w_pc = "update"
  /\ \E committed \in BOOLEAN :
       IF committed
       THEN /\ job' = [Updated(job, errors_occurred, index_errors)
                         EXCEPT !.report_s3_url = "None"]
            /\ db_job' = [Updated(job, errors_occurred, index_errors)
                            EXCEPT !.report_s3_url = "None"]
            /\ w_pc' = "finally"
            /\ UNCHANGED exc
       ELSE /\ job' = db_job
            /\ exc' = CommitFailed
            /\ w_pc' = "handler"
            /\ UNCHANGED db_job
  /\ UNCHANGED <<repo, earlier, graph_json, cxVars, depVars, api_pc, queue,
                 response, job_id, tmpdir, clone_dir, session_open,
                 errors_occurred, index_errors, report_file>>

\* lines 330-356: status, error, report path and summary, then the commit
UpdateJob ==
  /\ w_pc = "update"
  /\ \E committed \in BOOLEAN :
       IF committed
       THEN /\ job' = Updated(job, errors_occurred, index_errors)
            /\ db_job' = Updated(job, errors_occurred, index_errors)
            /\ w_pc' = "finally"
            /\ UNCHANGED exc
       ELSE /\ job' = db_job
            /\ exc' = CommitFailed
            /\ w_pc' = "handler"
            /\ UNCHANGED db_job
  /\ UNCHANGED <<repo, earlier, graph_json, cxVars, depVars, api_pc, queue,
                 response, job_id, tmpdir, clone_dir, session_open,
                 errors_occurred, index_errors, report_file>>

\* Handler that puts the job back to PENDING
HandlerRequeues ==
  /\ w_pc = "handler"
  /\ IF job = NoJob
     THEN UNCHANGED <<job, db_job>>
     ELSE /\ job' = [job EXCEPT !.status = "PENDING"]
          /\ db_job' = [job EXCEPT !.status = "PENDING"]
  /\ w_pc' = "finally"
  /\ UNCHANGED <<repo, earlier, graph_json, cxVars, depVars, api_pc, queue,
                 response, job_id, exc, tmpdir, clone_dir, session_open,
                 errors_occurred, index_errors, report_file>>

\* lines 358-375: the exception handler
Handler ==
  /\ w_pc = "handler"
  /\ IF job = NoJob
     THEN UNCHANGED <<job, db_job>>
     ELSE \E committed \in BOOLEAN :
            IF committed
            THEN /\ job' = [job EXCEPT !.status = "FAILED", !.error = HandlerError(exc)]
                 /\ db_job' = [job EXCEPT !.status = "FAILED", !.error = HandlerError(exc)]
            ELSE /\ job' = db_job
                 /\ UNCHANGED db_job
  /\ w_pc' = "finally"
  /\ UNCHANGED <<repo, earlier, graph_json, cxVars, depVars, api_pc, queue,
                 response, job_id, exc, tmpdir, clone_dir, session_open,
                 errors_occurred, index_errors, report_file>>

\* Finally that closes the session and leaves the clone where it is
FinallyOnlyCloses ==
  /\ w_pc = "finally"
  /\ session_open' = FALSE
  /\ w_pc' = "returned"
  /\ UNCHANGED <<repo, earlier, graph_json, cxVars, depVars, api_pc, queue, db_job,
                 response, job_id, exc, job, tmpdir, clone_dir, errors_occurred,
                 index_errors, report_file>>

\* lines 377-385: the clone is removed and the session closed
Finally ==
  /\ w_pc = "finally"
  /\ clone_dir' = IF tmpdir # "None" /\ clone_dir = "exists" THEN "removed"
                  ELSE clone_dir
  /\ session_open' = FALSE
  /\ w_pc' = "returned"
  /\ UNCHANGED <<repo, earlier, graph_json, cxVars, depVars, api_pc, queue, db_job,
                 response, job_id, exc, job, tmpdir, errors_occurred,
                 index_errors, report_file>>

\* A client asks for a job; the queue may hold a message for a job_id that
\* names no row.
InitJob ==
  /\ repo = << >>
  /\ CxIdle
  /\ DepIdle
  /\ earlier = << >>
  /\ graph_json = << >>
  /\ api_pc = "idle"
  /\ queue \in {<< >>, <<"unknown">>}
  /\ db_job = NoJob
  /\ response = NoResponse
  /\ w_pc = "idle"
  /\ job_id = "None"
  /\ exc = << >>
  /\ job = NoJob
  /\ tmpdir = "None"
  /\ clone_dir = "absent"
  /\ session_open = FALSE
  /\ errors_occurred = << >>
  /\ index_errors = << >>
  /\ report_file = FALSE

WorkerStep ==
  \/ WorkerStart
  \/ GetJob
  \/ SetRunning
  \/ CloneRepo
  \/ RunStages
  \/ SaveReport
  \/ UpdateJob
  \/ Handler
  \/ Finally

NextJob ==
  \/ ApiCreateJob
  \/ ApiDispatch
  \/ GetStatus
  \/ GetResults
  \/ WorkerStep

SpecJob == InitJob /\ [][NextJob]_vars

\* The endpoint runs to its answer, and the worker takes every message and
\* runs the task to its return.
SpecJobFair ==
  /\ InitJob
  /\ [][NextJob]_vars
  /\ WF_vars(ApiCreateJob)
  /\ WF_vars(ApiDispatch)
  /\ WF_vars(WorkerStep)
-----------------------------------------------------------------------------
(* The complexity report, stated without the walks of the code.            *)

\* Node m lies in the subtree of node n: it comes no earlier in pre-order
\* and its bytes lie within those of n.
InSubtree(tree, m, n) ==
  /\ m >= n
  /\ tree[m].start_byte >= tree[n].start_byte
  /\ tree[m].end_byte <= tree[n].end_byte
  /\ (m = n \/ tree[m].start_byte < tree[n].end_byte)

\* the decision points of the subtree of n that count
CountedDecisions(tree, content, n) ==
  { m \in 1..Len(tree) :
      /\ InSubtree(tree, m, n)
      /\ tree[m].type \in DECISION_NODE_TYPES
      /\ (tree[m].type \in AmbiguousTypes =>
            \E op \in LogicalOps : Contains(op, NodeText(content, tree[m]))) }

\* the decision points of the subtree of n, counted or not
DecisionNodes(tree, n) ==
  { m \in 1..Len(tree) : InSubtree(tree, m, n) /\ tree[m].type \in DECISION_NODE_TYPES }

\* the elements of a finite set of numbers in increasing order
RECURSIVE Ascending(_)
Ascending(S) ==
  IF S = {} THEN << >>
  ELSE LET least == CHOOSE x \in S : \A y \in S : x <= y
       IN <<least>> \o Ascending(S \ {least})

FunctionNodes(tree) == {n \in 1..Len(tree) : tree[n].type \in FUNCTION_NODE_TYPES}

\* the name a function node is reported under
ReportedName(tree, content, n) ==
  LET kids == tree[n].children
      named == {k \in 1..Len(kids) :
                  tree[kids[k]].type \in {"identifier", "property_identifier"}}
  IN IF named = {} THEN Unknown
     ELSE NodeText(content, tree[kids[CHOOSE k \in named : \A j \in named : k <= j]])

\* the functions of file f with what the report is to say of each
FunctionsOfFile(f) ==
  LET tree == TreeOf(f)
      content == ContentOf(f)
      nodes == Ascending(FunctionNodes(tree))
  IN [k \in 1..Len(nodes) |->
        [file_path |-> f.path,
         node |-> nodes[k],
         function_name |-> ReportedName(tree, content, nodes[k]),
         content |-> NodeText(content, tree[nodes[k]]),
         decisions |-> Cardinality(DecisionNodes(tree, nodes[k])),
         complexity |-> 1 + Cardinality(CountedDecisions(tree, content, nodes[k]))]]

\* the functions of the files analysed so far without an error, in order
RECURSIVE AnalysedUpTo(_)
AnalysedUpTo(i) ==
  IF i = 0 THEN << >>
  ELSE AnalysedUpTo(i - 1)
       \o (IF cx_log[i] = "ok" THEN FunctionsOfFile(repo[i]) ELSE << >>)

Analysed == AnalysedUpTo(Len(cx_log))

\* the function of a sample with a given name
FunctionNamed(id, name) ==
  LET tree == Source(id).tree
      content == Source(id).content
  IN CHOOSE n \in FunctionNodes(tree) : ReportedName(tree, content, n) = name

ComplexityOf(id, name) ==
  calculate_cyclomatic_complexity(Source(id).tree, Source(id).content,
                                  FunctionNamed(id, name))

CountBelow(seq, lo, hi) == Cardinality({k \in 1..Len(seq) : lo < seq[k] /\ seq[k] <= hi})

Thm_C2_ComplexityAtLeastOne ==
  /\ \A k \in 1..Len(results.complexities) : results.complexities[k] >= 1
  /\ Len(results.complexities) = Len(Analysed)
  /\ \A k \in 1..Len(Analysed) :
       Analysed[k].decisions = 0 => results.complexities[k] = 1
  /\ Len(results.complexities) >= 1 =>
       /\ results.min_complexity >= 1
       /\ results.max_complexity >= 1
       /\ results.min_complexity <= results.max_complexity
  /\ (cx_pc = "done" /\ Len(results.complexities) = 0) =>
       /\ results.min_complexity = 0
       /\ results.max_complexity = 0

\* The report is out, with a function without decision points and a
\* function that has some.
Wit_C2_MinBelowMax ==
  /\ cx_pc = "done"
  /\ \E k \in 1..Len(Analysed) : Analysed[k].decisions = 0
  /\ results.min_complexity = 1
  /\ results.max_complexity > 1

\* C9: every counted function is in exactly one bucket, low up to 5, medium
\* up to 10, high up to 20, very_high above, so that total_functions is the
\* number of recorded complexities and the sum of the four buckets, also
\* when the analysis of some file fails part-way.
Thm_C9_BucketsPartitionFunctions ==
  LET d == results.complexity_distribution
      c == results.complexities
  IN /\ results.total_functions = Len(c)
     /\ results.total_functions = d.low + d.medium + d.high + d.very_high
     /\ d.low = Cardinality({k \in 1..Len(c) : c[k] <= 5})
     /\ d.medium = CountBelow(c, 5, 10)
     /\ d.high = CountBelow(c, 10, 20)
     /\ d.very_high = Cardinality({k \in 1..Len(c) : c[k] > 20})

\* A file failed after it was counted as analysed, and functions at both
\* ends of the scale were counted.
Wit_C9_FailureAndBuckets ==
  /\ cx_pc = "done"
  /\ \E i \in 1..Len(cx_log) : cx_log[i] = "walk_error"
  /\ results.files_analyzed = 2
  /\ results.complexity_distribution.very_high > 0
  /\ results.complexity_distribution.low > 0

\* the records complex_functions is to hold
ComplexRecord(fn) ==
  [file_path |-> fn.file_path, function_name |-> fn.function_name,
   content |-> fn.content, complexity |-> fn.complexity]

ExpectedComplex == SelectSeq(Analysed, LAMBDA fn : fn.complexity > 10)

\* C10: complex_functions holds one record for each analysed function of
\* complexity above 10 and none for the others; a record carries the file
\* path, the name ("unknown" without an identifier child), the source text
\* and the complexity.
Thm_C10_ComplexFunctionsAboveMedium ==
  /\ Len(results.complex_functions) = Len(ExpectedComplex)
  /\ \A k \in 1..Len(ExpectedComplex) :
       results.complex_functions[k] = ComplexRecord(ExpectedComplex[k])
  /\ \A k \in 1..Len(results.complex_functions) :
       results.complex_functions[k].complexity > 10

\* A named and an unnamed function above the threshold were recorded.
Wit_C10_NamedAndUnknown ==
  /\ cx_pc = "done"
  /\ \E k \in 1..Len(results.complex_functions) :
       results.complex_functions[k].function_name = Unknown
  /\ \E k \in 1..Len(results.complex_functions) :
       /\ results.complex_functions[k].function_name = <<"h">>
       /\ results.complex_functions[k].complexity = 11

-----------------------------------------------------------------------------
(* The dependency graph, stated without the passes of the code.            *)

Edges(g) == {g.edges[i] : i \in 1..Len(g.edges)}
ImportEdges(g) == {e \in Edges(g) : e.data.relationship = "imports"}

\* the files pass 1 took in, in the order of the walk
RECURSIVE TakenUpTo(_)
TakenUpTo(i) ==
  IF i = 0 THEN << >>
  ELSE TakenUpTo(i - 1) \o (IF dep_log[i] = "ok" THEN <<repo[i]>> ELSE << >>)

Taken == TakenUpTo(Len(dep_log))

\* the paths of the files pass 1 gave up on
Failed == {repo[i].path : i \in {k \in 1..Len(dep_log) : dep_log[k] = "error"}}

ImportsOfFile(f) == ExtractImports(Splitext(f.path)[2], TreeOf(f), ContentOf(f))
EntitiesOfFile(f) == extract_functions_and_classes(TreeOf(f), ContentOf(f), 1)
ModulesOfFile(f) == {ImportsOfFile(f)[k].module : k \in 1..Len(ImportsOfFile(f))}

\* the node an import of module is to point at, the files being files
TargetAmong(files, module) ==
  LET hits == {k \in 1..Len(files) : Matches(module, files[k].path)}
  IN IF hits = {} THEN ExternalPrefix \o module
     ELSE files[CHOOSE k \in hits : \A j \in hits : k <= j].path

\* the graph of a repository that holds the given files and no others
NodesFor(files) ==
  UNION { {f.path}
          \cup {f.path \o Dcolon \o EntitiesOfFile(f).functions[k] :
                  k \in 1..Len(EntitiesOfFile(f).functions)}
          \cup {f.path \o Dcolon \o EntitiesOfFile(f).classes[k] :
                  k \in 1..Len(EntitiesOfFile(f).classes)}
          \cup {TargetAmong(files, m) : m \in ModulesOfFile(f)}
          : f \in {files[i] : i \in 1..Len(files)} }

EdgePairsFor(files) ==
  UNION { {<<f.path, f.path \o Dcolon \o EntitiesOfFile(f).functions[k]>> :
             k \in 1..Len(EntitiesOfFile(f).functions)}
          \cup {<<f.path, f.path \o Dcolon \o EntitiesOfFile(f).classes[k]>> :
                  k \in 1..Len(EntitiesOfFile(f).classes)}
          \cup {<<f.path, TargetAmong(files, m)>> : m \in ModulesOfFile(f)}
          : f \in {files[i] : i \in 1..Len(files)} }

\* C3: every function or class node has exactly one incoming edge, a
\* defines edge from its owning file, and no outgoing edge.
Thm_C3_SymbolNodesOneInNoOut ==
  \A n \in NodesOf(G) :
    TypeOf(G, n) \in {"function", "class"} =>
      /\ in_degree(G, n) = 1
      /\ out_degree(G, n) = 0
      /\ \A e \in Edges(G) :
           e.v = n => e.u = G.attr[n].file /\ e.data.relationship = "defines"

\* The returned graph holds a function node that two definitions of one
\* name share, a class node, and an imports edge.
Wit_C3_SharedNameAndClass ==
  /\ dep_pc = "built"
  /\ \E p \in DOMAIN file_data.val :
       /\ Len(file_data.val[p].functions) = 2
       /\ file_data.val[p].functions[1] = file_data.val[p].functions[2]
       /\ TypeOf(G, p \o Dcolon \o file_data.val[p].functions[1]) = "function"
  /\ \E n \in NodesOf(G) : TypeOf(G, n) = "class"
  /\ ImportEdges(G) # {}

\* the five match rules of an import against a file path
ModulePath(module) == ReplaceChar(module, ".", "/")

Dirname(p) ==
  LET seps == {i \in 1..Len(p) : p[i] = "/"}
  IN IF seps = {} THEN << >>
     ELSE SubSeq(p, 1, (CHOOSE i \in seps : \A k \in seps : k <= i) - 1)

RECURSIVE WithoutLeadingDots(_)
WithoutLeadingDots(m) ==
  IF m # << >> /\ m[1] = "." THEN WithoutLeadingDots(Tail(m)) ELSE m

\* the candidate of a relative import: the module below the importer's directory
RelativeCandidate(module, importer) ==
  IF Dirname(importer) = << >> THEN ModulePath(WithoutLeadingDots(module))
  ELSE Dirname(importer) \o <<"/">> \o ModulePath(WithoutLeadingDots(module))

FiveRules(module, path, importer) ==
  \/ path = module
  \/ Splitext(path)[1] = module
  \/ \E ext \in SourceExts : EndsWith(path, ModulePath(module) \o ext)
  \/ EndsWith(Splitext(path)[1], <<"/">> \o ModulePath(module))
  \/ /\ module # << >>
     /\ module[1] = "."
     /\ RelativeCandidate(module, importer) \in {path, Splitext(path)[1]}

\* C4: an imports edge leads to a file only if the file's path matches the
\* module by one of the five rules, and an import whose module matches no
\* known file by these rules has its edge to an external node.
Cex_C4_EdgesFollowFiveRules ==
  \A e \in ImportEdges(G) :
    /\ TypeOf(G, e.v) = "file" => FiveRules(e.data.module, e.v, e.u)
    /\ (\A k \in 1..Len(file_data.keys) :
          ~FiveRules(e.data.module, file_data.keys[k], e.u))
       => e.v = ExternalPrefix \o e.data.module

\* the modules some taken file imports and no taken file matches
Unresolved ==
  { m \in UNION {ModulesOfFile(Taken[i]) : i \in 1..Len(Taken)} :
      \A k \in 1..Len(Taken) : ~Matches(m, Taken[k].path) }

Importers(m) == {i \in 1..Len(Taken) : m \in ModulesOfFile(Taken[i])}

ExternalNodes(g) == {n \in NodesOf(g) : TypeOf(g, n) = "external"}

\* C5: the id of an external node is "external::" and its module string,
\* and N files that import one unresolved module give one external node and
\* N imports edges, all to that node.
Thm_C5_OneExternalNodePerModule ==
  /\ \A n \in ExternalNodes(G) : n = ExternalPrefix \o G.attr[n].module
  /\ dep_pc = "built" =>
       /\ \A m \in Unresolved :
            /\ Cardinality({n \in ExternalNodes(G) : G.attr[n].module = m}) = 1
            /\ in_degree(G, ExternalPrefix \o m) = Cardinality(Importers(m))
            /\ \A i \in Importers(m) :
                 \E e \in ImportEdges(G) :
                   /\ e.u = Taken[i].path
                   /\ e.v = ExternalPrefix \o m
                   /\ e.data.module = m
       /\ \A n \in ExternalNodes(G) : G.attr[n].module \in Unresolved

\* Two files import numpy, which no file provides: one node, two edges.
Wit_C5_TwoImportersOneNode ==
  /\ dep_pc = "built"
  /\ \E m \in Unresolved :
       /\ Cardinality(Importers(m)) = 2
       /\ in_degree(G, ExternalPrefix \o m) = 2
       /\ Cardinality(ExternalNodes(G)) = 1

\* the repository is a.py and b.py, both taken in, with these contents
TwoFileRepo(srcA, srcB) ==
  /\ Len(repo) = 2
  /\ {repo[1], repo[2]} = {File(A_py, srcA), File(B_py, srcB)}
  /\ dep_log = <<"ok", "ok">>

IsRotationOf(cycle, nodes) ==
  /\ Len(cycle) = Cardinality(nodes)
  /\ {cycle[i] : i \in 1..Len(cycle)} = nodes

\* C6: with a.py importing b and b.py importing a, analyze_dependencies
\* reports exactly one circular dependency, of a.py and b.py; without either
\* of the two imports it reports none.
Thm_C6_TwoFileCycle ==
  dep_pc = "done" =>
    /\ TwoFileRepo("ImportB", "ImportA") =>
         /\ report.circular_dependencies = 1
         /\ Len(report.circular_dependency_chains) = 1
         /\ IsRotationOf(report.circular_dependency_chains[1], {A_py, B_py})
    /\ (TwoFileRepo("Empty", "ImportA") \/ TwoFileRepo("ImportB", "Empty")) =>
         /\ report.circular_dependencies = 0
         /\ report.circular_dependency_chains = << >>

\* The report on the two files that import each other is out.
Wit_C6_CycleReported ==
  /\ dep_pc = "done"
  /\ TwoFileRepo("ImportB", "ImportA")
  /\ report.circular_dependencies = 1

\* the sequences of at most n nodes out of S
RECURSIVE SeqsUpTo(_, _)
SeqsUpTo(S, n) ==
  IF n = 0 THEN { << >> }
  ELSE LET shorter == SeqsUpTo(S, n - 1)
       IN shorter \cup {Append(p, x) : p \in {q \in shorter : Len(q) = n - 1}, x \in S}

\* the elementary cycles of g through file nodes only, each written from
\* its earliest node in node order
FileCycleSet(g) ==
  LET files == {n \in NodesOf(g) : TypeOf(g, n) = "file"}
  IN { p \in SeqsUpTo(files, Cardinality(files)) :
         /\ Len(p) >= 1
         /\ \A i, j \in 1..Len(p) : i # j => p[i] # p[j]
         /\ \A i \in 2..Len(p) : IndexOf(g.order, p[1]) < IndexOf(g.order, p[i])
         /\ \A i \in 1..(Len(p) - 1) : has_edge(g, p[i], p[i + 1])
         /\ has_edge(g, p[Len(p)], p[1]) }

\* C7: every cycle of circular_dependency_chains consists of file nodes
\* only; the list holds the first min(10, n) of the n file-only cycles
\* found, and circular_dependencies is n.
Thm_C7_ChainsAreFileCyclesCapped ==
  dep_pc = "done" =>
    LET chains == report.circular_dependency_chains
        n == Cardinality(FileCycleSet(G))
    IN /\ \A k \in 1..Len(chains) :
            \A i \in 1..Len(chains[k]) : TypeOf(G, chains[k][i]) = "file"
       /\ report.circular_dependencies = n
       /\ Len(chains) <= 10
       /\ Len(chains) = Min(10, n)
       /\ \A k \in 1..Len(chains) : chains[k] \in FileCycleSet(G)
       /\ \A k, l \in 1..Len(chains) : k # l => chains[k] # chains[l]
       /\ chains = SubSeq(FileCycles(G), 1, Len(chains))

\* More than ten cycles were found and ten are listed.
Wit_C7_MoreThanTenCycles ==
  /\ dep_pc = "done"
  /\ report.circular_dependencies > 10
  /\ Len(report.circular_dependency_chains) = 10

\* C8: a file that fails in pass 1 is absent from the result: no file node,
\* no function or class node, no entry in file_data, no edge from or to it;
\* the other files are handled as if it did not exist.
Thm_C8_FailedFileAbsent ==
  /\ \A p \in Failed :
       /\ p \notin NodesOf(G)
       /\ \A n \in NodesOf(G) : "file" \in DOMAIN G.attr[n] => G.attr[n].file # p
       /\ ~InSeq(file_data.keys, p)
       /\ p \notin DOMAIN file_data.val
       /\ \A e \in Edges(G) : e.u # p /\ e.v # p
  /\ dep_pc = "built" =>
       /\ file_data.keys = [i \in 1..Len(Taken) |-> Taken[i].path]
       /\ NodesOf(G) = NodesFor(Taken)
       /\ {<<e.u, e.v>> : e \in Edges(G)} = EdgePairsFor(Taken)

\* A file failed whose path an import of another file would have matched;
\* the import went to an external node.
Wit_C8_ImportOfFailedFile ==
  /\ dep_pc = "built"
  /\ \E p \in Failed :
       \E i \in 1..Len(Taken) :
         \E m \in ModulesOfFile(Taken[i]) :
           /\ Matches(m, p)
           /\ has_edge(G, Taken[i].path, ExternalPrefix \o m)

-----------------------------------------------------------------------------
(* Two runs on one input.                                                   *)

-----------------------------------------------------------------------------
(* From-imports.                                                            *)

\* pass 1 took the whole repository in, and it is these files
RepoTaken(r) == repo = r /\ Len(dep_log) = Len(r) /\ Taken = r

\* C12: with 'from .b import x' in pkg/a.py and pkg/b.py among the known
\* files, the returned graph has an imports edge from pkg/a.py to pkg/b.py
\* and no external node.
Cex_C12_RelativeImportResolved ==
  (/\ dep_pc = "built"
   /\ RepoTaken(<< File(Pkg_a_py, "FromDotBImportX"), File(Pkg_b_py, "Empty") >>))
  => /\ \E e \in ImportEdges(G) : e.u = Pkg_a_py /\ e.v = Pkg_b_py
     /\ ExternalNodes(G) = {}

\* the import_from_statement nodes of a tree
FromStatements(tree) ==
  {n \in 1..Len(tree) : tree[n].type = "import_from_statement"}

\* the children of a from-statement after its 'import' token that name an
\* imported item, in order
ItemChildren(tree, n) ==
  LET kids == tree[n].children
      at == {k \in 1..Len(kids) : tree[kids[k]].type = "import"}
      from == CHOOSE k \in at : \A j \in at : k <= j
  IN SelectSeq(SubSeq(kids, from + 1, Len(kids)),
               LAMBDA c : tree[c].type \in {"dotted_name", "aliased_import"})

\* what 'from X import a, b' is to yield: X, the child after 'from', and the
\* items a, b
FromReference(tree, content, n) ==
  LET items == ItemChildren(tree, n)
  IN Import("from_import",
            NodeText(content, tree[tree[n].children[2]]),
            [i \in 1..Len(items) |-> NodeText(content, tree[items[i]])])

\* C18: for every statement 'from X import a, b, ...' of a file taken in,
\* the extracted reference has module X and the items a, b, ...
Cex_C18_FromModuleIsNameAfterFrom ==
  \A i \in 1..Len(Taken) :
    LET tree == TreeOf(Taken[i])
        imports == file_data.val[Taken[i].path].imports
    IN \A n \in FromStatements(tree) :
         tree[tree[n].children[2]].type = "dotted_name" =>
           \E k \in 1..Len(imports) :
             imports[k] = FromReference(tree, ContentOf(Taken[i]), n)

-----------------------------------------------------------------------------
(* The report.                                                              *)

FileNodes(g) == {n \in NodesOf(g) : TypeOf(g, n) = "file"}

\* C13, as the code has it: the step of analyze_dependencies that computes
\* the metrics either leaves the built graph as it is and reports its edge
\* count and its number of external nodes (exclude_third_party false), or
\* takes the external nodes and the edges to them out of it and reports the
\* edge count of what is left and 0 external dependencies
\* (exclude_third_party true); the other nodes, their attributes and the
\* edges among them are never touched.
Thm_C13_MetricsDropOnlyExternals ==
  [][(dep_pc = "built" /\ dep_pc' = "done") =>
       LET ext == ExternalNodes(G)
       IN /\ \/ /\ G' = G
                /\ report'.total_external_dependencies = Cardinality(ext)
             \/ /\ NodesOf(G') = NodesOf(G) \ ext
                /\ Edges(G') = {e \in Edges(G) : e.v \notin ext}
                /\ \A n \in NodesOf(G') : G'.attr[n] = G.attr[n]
                /\ report'.total_external_dependencies = 0
          /\ report'.total_edges = Len(G'.edges)
          /\ report'.total_files = Cardinality(FileNodes(G))
          /\ report'.total_functions
               = Cardinality({n \in NodesOf(G) : TypeOf(G, n) = "function"})
          /\ report'.total_classes
               = Cardinality({n \in NodesOf(G) : TypeOf(G, n) = "class"})]_vars

\* The metrics are out on a graph that was built with an external node and
\* has none any more.
Wit_C13_ExternalsRemoved ==
  /\ dep_pc = "done"
  /\ Unresolved # {}
  /\ ExternalNodes(G) = {}
  /\ report.total_external_dependencies = 0
  /\ report.total_edges > 0

\* C13, as stated: the step of analyze_dependencies that computes the
\* metrics leaves the nodes and edges of the built graph as they are, and
\* total_edges and total_external_dependencies are the counts of that graph.
Cex_C13_MetricsLeaveGraphAlone ==
  [][(dep_pc = "built" /\ dep_pc' = "done") =>
       /\ NodesOf(G') = NodesOf(G)
       /\ Edges(G') = Edges(G)
       /\ report'.total_edges = Len(G.edges)
       /\ report'.total_external_dependencies = Cardinality(ExternalNodes(G))]_vars

\* a top list: entries of min(5, number of file nodes) different file nodes
\* with their degree, by falling degree, nodes of one degree in node order,
\* and no file node left out that would have to come before a listed one
IsTopList(g, files, degrees, deg(_, _)) ==
  /\ Len(files) = Len(degrees)
  /\ Len(files) = Min(5, Cardinality(FileNodes(g)))
  /\ \A i \in 1..Len(files) : files[i] \in FileNodes(g) /\ degrees[i] = deg(g, files[i])
  /\ \A i, j \in 1..Len(files) : i < j =>
       /\ files[i] # files[j]
       /\ degrees[i] >= degrees[j]
       /\ degrees[i] = degrees[j] => IndexOf(g.order, files[i]) < IndexOf(g.order, files[j])
  /\ \A u \in FileNodes(g) \ {files[i] : i \in 1..Len(files)} :
       \A i \in 1..Len(files) :
         /\ deg(g, u) <= degrees[i]
         /\ deg(g, u) = degrees[i] => IndexOf(g.order, files[i]) < IndexOf(g.order, u)

\* C14: most_dependent_files is the top list of the file nodes by
\* out-degree, most_depended_on_files the one by in-degree.
Thm_C14_TopFiveByDegree ==
  dep_pc = "done" =>
    /\ IsTopList(G,
         [i \in 1..Len(report.most_dependent_files) |-> report.most_dependent_files[i].file],
         [i \in 1..Len(report.most_dependent_files) |-> report.most_dependent_files[i].dependencies],
         out_degree)
    /\ IsTopList(G,
         [i \in 1..Len(report.most_depended_on_files) |-> report.most_depended_on_files[i].file],
         [i \in 1..Len(report.most_depended_on_files) |-> report.most_depended_on_files[i].dependents],
         in_degree)

\* Six file nodes, five listed; two listed files have one out-degree, and
\* the file left out has the in-degree of the last one listed.
Wit_C14_SixFilesWithTies ==
  /\ dep_pc = "done"
  /\ Cardinality(FileNodes(G)) = 6
  /\ Len(report.most_dependent_files) = 5
  /\ \E i \in 1..4 : report.most_dependent_files[i].dependencies
                       = report.most_dependent_files[i + 1].dependencies
  /\ \E u \in FileNodes(G) :
       /\ \A i \in 1..5 : report.most_depended_on_files[i].file # u
       /\ in_degree(G, u) = report.most_depended_on_files[5].dependents

-----------------------------------------------------------------------------
(* The shape of the graph.                                                  *)

RECURSIVE SumOver(_, _)
SumOver(f, S) ==
  IF S = {} THEN 0
  ELSE LET x == CHOOSE x \in S : TRUE IN f[x] + SumOver(f, S \ {x})

\* the number of edges of a relationship, every edge counted
EdgeCount(g, relationship) ==
  Cardinality({i \in 1..Len(g.edges) : g.edges[i].data.relationship = relationship})

\* C15: the returned graph has as many imports edges as pass 1 extracted
\* import references, two imports of one file with one target being two.
Cex_C15_OneEdgePerImport ==
  dep_pc = "built" =>
    EdgeCount(G, "imports")
      = SumOver([i \in 1..Len(Taken) |-> Len(ImportsOfFile(Taken[i]))], 1..Len(Taken))

\* C16: the returned graph has as many function and class nodes as pass 1
\* extracted definitions, and for every definition a node of its kind.
Cex_C16_OneNodePerDefinition ==
  dep_pc = "built" =>
    /\ Cardinality({n \in NodesOf(G) : TypeOf(G, n) \in {"function", "class"}})
         = SumOver([i \in 1..Len(Taken) |->
                      Len(EntitiesOfFile(Taken[i]).functions)
                        + Len(EntitiesOfFile(Taken[i]).classes)], 1..Len(Taken))
    /\ \A i \in 1..Len(Taken) :
         LET p == Taken[i].path
             fs == EntitiesOfFile(Taken[i]).functions
             cs == EntitiesOfFile(Taken[i]).classes
         IN /\ \A k \in 1..Len(fs) : TypeOf(G, p \o Dcolon \o fs[k]) = "function"
            /\ \A k \in 1..Len(cs) : TypeOf(G, p \o Dcolon \o cs[k]) = "class"

\* C17: for every file both walks took in, file_data holds as many functions
\* as the scorer scored in it, a definition without a name among them.
Cex_C17_GraphAndScorerCountAlike ==
  (cx_pc = "done" /\ dep_pc = "built") =>
    \A i \in 1..Len(repo) :
      (cx_log[i] = "ok" /\ dep_log[i] = "ok") =>
        Len(file_data.val[repo[i].path].functions) = Len(FunctionsOfFile(repo[i]))

\* C19: every edge is a defines edge from a file node to a function or class
\* node, or an imports edge from a file node to a file node or to the
\* external node of the module it carries; external nodes have no edge out.
Thm_C19_EdgeKinds ==
  /\ \A e \in Edges(G) :
       /\ TypeOf(G, e.u) = "file"
       /\ \/ /\ e.data.relationship = "defines"
             /\ TypeOf(G, e.v) \in {"function", "class"}
             /\ G.attr[e.v].file = e.u
          \/ /\ e.data.relationship = "imports"
             /\ "module" \in DOMAIN e.data
             /\ \E i \in 1..Len(Taken) :
                  Taken[i].path = e.u /\ e.data.module \in ModulesOfFile(Taken[i])
             /\ \/ TypeOf(G, e.v) = "file"
                \/ TypeOf(G, e.v) = "external" /\ e.v = ExternalPrefix \o e.data.module
  /\ \A n \in ExternalNodes(G) : out_degree(G, n) = 0

\* The returned graph has a defines edge, an imports edge to a file and an
\* imports edge to an external node.
Wit_C19_AllEdgeKinds ==
  /\ dep_pc = "built"
  /\ EdgeCount(G, "defines") > 0
  /\ \E e \in ImportEdges(G) : TypeOf(G, e.v) = "file"
  /\ \E e \in ImportEdges(G) : TypeOf(G, e.v) = "external"

-----------------------------------------------------------------------------
(* The two rounded numbers of the report.                                   *)

Abs(x) == IF x < 0 THEN -x ELSE x

\* count is a nearest integer to num * scale / den
IsNearest(count, num, den, scale) == 2 * Abs(count * den - num * scale) <= den

\* C20, as the code has it: the reported average degree is the total degree
\* (twice the edge count) over the node count rounded to two decimals, the
\* reported density is edges / (nodes x (nodes - 1)) rounded to four
\* decimals and 0 for a graph of one node or without edges, and both are 0
\* for the empty graph.
Thm_C20_AverageAndDensityRounded ==
  dep_pc = "done" =>
    LET n == Len(G.order)
        m == Len(G.edges)
    IN /\ n = 0 => report.average_connections_per_node = 0 /\ report.graph_density = 0
       /\ n > 0 => IsNearest(report.average_connections_per_node, 2 * m, n, 100)
       /\ (n = 1 \/ m = 0) => report.graph_density = 0
       /\ (n > 1 /\ m > 0) => IsNearest(report.graph_density, m, n * (n - 1), 10000)

\* A report on a graph whose average degree and density are no multiples of
\* a hundredth and of a ten-thousandth.
Wit_C20_RoundingApplies ==
  /\ dep_pc = "done"
  /\ Len(G.order) > 1
  /\ (200 * Len(G.edges)) % Len(G.order) # 0
  /\ (10000 * Len(G.edges)) % (Len(G.order) * (Len(G.order) - 1)) # 0
  /\ report.average_connections_per_node > 0
  /\ report.graph_density > 0

\* C20, as stated: the reported average degree times the node count is the
\* total degree, the reported density is edges / (nodes x (nodes - 1)), and
\* both are 0 for the empty graph.
Cex_C20_AverageAndDensityExact ==
  dep_pc = "done" =>
    LET n == Len(G.order)
        m == Len(G.edges)
    IN /\ n = 0 => report.average_connections_per_node = 0 /\ report.graph_density = 0
       /\ n > 0 => report.average_connections_per_node * n = 100 * 2 * m
       /\ n > 1 => report.graph_density * n * (n - 1) = 10000 * m


-----------------------------------------------------------------------------
(* The node-link form, import resolution, the totals of the metrics        *)

\* C21: exporting the graph to node-link form and rebuilding a graph from that
\* form gives as many nodes, as many edges and, on every node, the attributes
\* of the exported graph.
Thm_C21_NodeLinkRoundTrip ==
  dep_pc = "exported" =>
    LET h == node_link_graph(graph_json)
    IN /\ Len(h.order) = Len(G.order)
       /\ Len(h.edges) = Len(G.edges)
       /\ NodesOf(h) = NodesOf(G)
       /\ \A n \in NodesOf(G) : h.attr[n] = G.attr[n]

\* a graph with a definition node, which has a name and a file, and an imports
\* edge, which has a module, has been exported
Wit_C21_NodeLinkRoundTrip ==
  /\ dep_pc = "exported"
  /\ \E n \in NodesOf(G) : TypeOf(G, n) \in {"function", "class"}
  /\ \E i \in 1..Len(G.edges) : G.edges[i].data["relationship"] = "imports"
  /\ Len(graph_json.nodes) = Len(G.order)

\* C29: in every result of analyze_dependencies, with the external nodes kept
\* or removed, total_files + total_functions + total_classes +
\* total_external_dependencies is the number of nodes of the graph on which
\* total_edges, the average connections and the density were computed.
Thm_C29_TotalsAddUpToNodes ==
  dep_pc \in {"done", "exported"} =>
    /\ report.total_files + report.total_functions + report.total_classes
         + report.total_external_dependencies = Len(G.order)
    /\ report.total_edges = Len(G.edges)
    /\ report.average_connections_per_node = average_connections_per_node(G)
    /\ report.graph_density = graph_density(G)

\* a result for a repository that imports an unknown module, with the
\* external nodes removed, of a graph that still has a file and a definition
Wit_C29_TotalsAfterFilter ==
  /\ dep_pc = "done"
  /\ \E i \in 1..Len(dep_log) : dep_log[i] = "ok"
  /\ \E f \in DOMAIN file_data.val :
       \E k \in 1..Len(file_data.val[f].imports) :
         ~\E p \in DOMAIN file_data.val : Matches(file_data.val[f].imports[k].module, p)
  /\ report.total_external_dependencies = 0
  /\ report.total_functions + report.total_classes >= 1
  /\ NodesOfType(G, "external") = << >>

\* the positions in file_data.keys() of the files a module matches
MatchingKeys(module) ==
  {k \in 1..Len(file_data.keys) : Matches(module, file_data.keys[k])}

\* the pairs of end points of the imports edges
ImportPairs(g) == {<<e.u, e.v>> : e \in ImportEdges(g)}

Thm_C24_ResolutionAfterPassOne ==
  /\ dep_pc = "pass1" => ImportEdges(G) = {} /\ ExternalNodes(G) = {}
  /\ dep_pc \in {"pass2", "built"} =>
       /\ Len(dep_log) = Len(repo)
       /\ file_data.keys = [i \in 1..Len(Taken) |-> Taken[i].path]
  /\ dep_pc = "built" =>
       \A i \in 1..Len(Taken) : \A m \in ModulesOfFile(Taken[i]) :
         /\ <<Taken[i].path, TargetAmong(Taken, m)>> \in ImportPairs(G)
         /\ (\E k \in 1..Len(Taken) : Matches(m, Taken[k].path))
              => <<Taken[i].path, ExternalPrefix \o m>> \notin ImportPairs(G)

\* the graph is built and a file imports a file enumerated after it
Wit_C24_TargetEnumeratedLater ==
  /\ dep_pc = "built"
  /\ \E i \in 1..Len(Taken) : \E j \in (i + 1)..Len(Taken) :
       /\ \E m \in ModulesOfFile(Taken[i]) : TargetAmong(Taken, m) = Taken[j].path
       /\ <<Taken[i].path, Taken[j].path>> \in ImportPairs(G)

\* C30: no file node has an imports edge to itself, and no circular
\* dependency of a single file is reported.
Cex_C30_NoSelfImport ==
  /\ \A e \in ImportEdges(G) : e.u # e.v
  /\ dep_pc \in {"done", "exported"} =>
       \A k \in 1..Len(report.circular_dependency_chains) :
         Len(report.circular_dependency_chains[k]) >= 2

-----------------------------------------------------------------------------
(* The analysis job                                                        *)

Terminal == {"COMPLETED", "FAILED"}

StatusStep(a, b) == db_job.status = a /\ db_job'.status = b

Cex_C26_EveryJobEnds ==
  (db_job.status \in {"PENDING", "RUNNING"}) ~> (db_job.status \in Terminal)

\* an error of one of the four analysis stages is in the list
StageErrorIn(errors) ==
  \E i \in 1..Len(errors) :
    errors[i] \in {CodeMetricsFailed, DependencyFailed, GraphJsonFailed,
                   DuplicationFailed}

\* the index failed in one of the four ways C27 calls critical
IsCriticalWithEmbedding(errors) ==
  \E i \in 1..Len(errors) :
    \/ Contains(<<"F", "a", "i", "l", "e", "d", " ", "t", "o", " ", "l", "o", "a", "d", " ", "e", "m", "b", "e", "d", "d", "i", "n", "g", " ", "m", "o", "d", "e", "l">>, errors[i])
    \/ Contains(<<"E", "m", "b", "e", "d", "d", "i", "n", "g", " ", "g", "e", "n", "e", "r", "a", "t", "i", "o", "n", " ", "f", "a", "i", "l", "e", "d">>, errors[i])
    \/ Contains(<<"F", "A", "I", "S", "S", " ", "i", "n", "d", "e", "x", " ", "b", "u", "i", "l", "d", " ", "f", "a", "i", "l", "e", "d">>, errors[i])
    \/ Contains(<<"F", "a", "i", "l", "e", "d", " ", "t", "o", " ", "s", "a", "v", "e", " ", "i", "n", "d", "e", "x", "/", "m", "a", "p", "p", "i", "n", "g">>, errors[i])

\* C27: the update of run_full_analysis marks the job COMPLETED only if no
\* analysis stage recorded an error and the index did not fail critically
\* (model load, embedding generation, index build, saving), and FAILED if
\* one of those failed; read errors of the index alone leave it COMPLETED,
\* with the errors in job.error.
Cex_C27_CompletedOnlyWithoutFailure ==
  (w_pc \in {"finally", "returned"} /\ job_id = "job" /\ exc = << >>) =>
    /\ db_job.status = "COMPLETED"
         <=> ~StageErrorIn(errors_occurred) /\ ~IsCriticalWithEmbedding(index_errors)
    /\ db_job.status = "FAILED"
         <=> StageErrorIn(errors_occurred) \/ IsCriticalWithEmbedding(index_errors)
    /\ (db_job.status = "COMPLETED" /\ errors_occurred # << >>)
         => db_job.error = Limited(Join(errors_occurred))

\* C28: when run_full_analysis returns, on whatever path, the directory made
\* for the clone does not exist and the database session is closed.
Thm_C28_CleanupOnEveryPath ==
  w_pc = "returned" => clone_dir # "exists" /\ ~session_open

\* the task has returned through the exception handler after a successful
\* clone, and the clone is gone
Wit_C28_CleanupAfterException ==
  /\ w_pc = "returned"
  /\ tmpdir = "tmp"
  /\ exc # << >>
  /\ clone_dir = "removed"
  /\ ~session_open
=============================================================================
